---- MODULE Spec2Model ----
(***************************************************************************)
(* Model of the two algorithmic components of the AUTOS data scripts:      *)
(*   - BodyClassClassifier   (src/data/scripts/body_class_classifier.py)   *)
(*   - VINGenerator and distribute_vins_across_vehicles                    *)
(*                            (src/data/scripts/generate_vin_data.py)      *)
(*                                                                         *)
(* Python str values that the code inspects character by character         *)
(* (manufacturer, model, catalog keys, regex sources) are sequences of     *)
(* one-character strings.  Body-class labels and match types are only      *)
(* compared for equality and truthiness and are TLA+ strings.              *)
(***************************************************************************)
EXTENDS Integers, Sequences, FiniteSets, TLC

VARIABLES
    patterns,           \* self.patterns           (loaded pattern catalog)
    overrides,          \* self.overrides          (loaded override catalog)
    taxonomy,           \* self.taxonomy           (loaded, never consulted)
    compiled_patterns,  \* self.compiled_patterns
    stats,              \* self.stats
    lastCall,           \* arguments of the latest classify call
    lastResult,         \* value returned by the latest classify call
    repeated,           \* the latest classify call repeated the arguments
                        \* of the call before it (history, for the claims)
    files,              \* the three catalog files as found on disk
    phase,              \* position of the classifier object's life cycle
    workers,            \* threads inside classify on one shared classifier:
                        \* position, arguments and the values they hold
    job,                \* the frame of classify_and_prepare_updates: its
                        \* documents, loop position and the lists it builds
    generators,         \* the VINGenerator instances: self.seed, self.state
    produced,           \* per instance, the record its latest call returned
    requests,           \* per instance, the number of generate_instance
                        \* calls and the latest call's arguments and day
    now,                \* the day datetime.now() falls on
    distVehicles,       \* argument vehicles of distribute_vins_across_vehicles
    distTarget,         \* argument target_count
    distResult          \* what the call returned or raised

clsVars == <<patterns, overrides, taxonomy, compiled_patterns, stats,
             lastCall, lastResult, repeated, files, phase, workers, job>>
genVars == <<generators, produced, requests, now>>
distVars == <<distVehicles, distTarget, distResult>>

----------------------------------------------------------------------------
(* Bounds of the model *)

\* classify calls made on one classifier instance
MaxCalls == 2

\* generate_instance calls made on one generator instance
MaxGenCalls == 1

\* the largest instance index passed to generate_instance
MaxIndex == 1

\* days the clock advances while the generators run
MaxDay == 1

\* VINs generate_all_vins asks one generator for (vin_count)
MaxBatch == 2

\* vehicles in the list given to distribute_vins_across_vehicles
MaxVehicles == 3

\* the largest instance_count of a vehicle
MaxInstanceCount == 3

\* the largest target_count
MaxTarget == 20
MaxDraws == 3
MaxIdLength == 7
MaxDocuments == 2

\* entries of the distribution given to generate_all_vins
MaxItems == 2

----------------------------------------------------------------------------
(* Python values *)

\* Python's None
None == "<None>"

\* dict / list / other JSON shapes are tagged records: [kind |-> ..., ...]

\* Python truthiness of an Optional[str] (None and '' are falsy)
Truthy(x) == x # None /\ x # ""

----------------------------------------------------------------------------
(* str operations *)

UpperChars == <<"A","B","C","D","E","F","G","H","I","J","K","L","M",
                "N","O","P","Q","R","S","T","U","V","W","X","Y","Z">>
LowerChars == <<"a","b","c","d","e","f","g","h","i","j","k","l","m",
                "n","o","p","q","r","s","t","u","v","w","x","y","z">>

\* str.lower() and str.upper() on the ASCII letters, as lookup tables
LowerMap == [c \in {UpperChars[i] : i \in 1..26} |->
                LowerChars[CHOOSE i \in 1..26 : UpperChars[i] = c]]
UpperMap == [c \in {LowerChars[i] : i \in 1..26} |->
                UpperChars[CHOOSE i \in 1..26 : LowerChars[i] = c]]

\* str.lower() of one character
LowerChar(c) == IF c \in DOMAIN LowerMap THEN LowerMap[c] ELSE c

\* str.upper() of one character
UpperChar(c) == IF c \in DOMAIN UpperMap THEN UpperMap[c] ELSE c

\* s.lower()
Lower(s) == [i \in 1..Len(s) |-> LowerChar(s[i])]

\* s.upper()
Upper(s) == [i \in 1..Len(s) |-> UpperChar(s[i])]

\* whitespace characters removed by str.strip()
Whitespace == {" "}

\* s.strip(): drop leading and trailing whitespace
Strip(s) ==
    IF \A i \in 1..Len(s) : s[i] \in Whitespace
    THEN <<>>
    ELSE LET first == CHOOSE i \in 1..Len(s) :
                         /\ s[i] \notin Whitespace
                         /\ \A j \in 1..(i-1) : s[j] \in Whitespace
             last  == CHOOSE i \in 1..Len(s) :
                         /\ s[i] \notin Whitespace
                         /\ \A j \in (i+1)..Len(s) : s[j] \in Whitespace
         IN  SubSeq(s, first, last)

\* `sub in s` for two str values
Contains(sub, s) ==
    \E off \in 0..(Len(s) - Len(sub)) :
        \A j \in 1..Len(sub) : s[off + j] = sub[j]

\* any(word in s for word in words)
AnyIn(words, s) == \E k \in 1..Len(words) : Contains(words[k], s)

\* a for loop that returns at its first hit: hits[i] tells whether the
\* i-th iteration's condition holds; the index of the first hit, 0 when
\* the loop runs to its end
First(hits) ==
    IF \E i \in 1..Len(hits) : hits[i]
    THEN CHOOSE i \in 1..Len(hits) : hits[i] /\ \A j \in 1..(i-1) : ~hits[j]
    ELSE 0

----------------------------------------------------------------------------
(* re.compile(pattern, re.IGNORECASE) and pattern.search(model), for the   *)
(* regex subset: literal characters, '.', a leading '^', a trailing '$';   *)
(* a source holding an unbalanced '(' is not a valid regex (re.error).     *)

ReError == "re.error"

RegexValid(src) == \A i \in 1..Len(src) : src[i] \notin {"(", ")"}

ReCompile(src) ==
    IF ~RegexValid(src) THEN ReError
    ELSE LET s == Len(src) > 0 /\ src[1] = "^"
             e == Len(src) > (IF s THEN 1 ELSE 0) /\ src[Len(src)] = "$"
         IN  [start |-> s,
              end   |-> e,
              body  |-> SubSeq(src, (IF s THEN 2 ELSE 1),
                                    (IF e THEN Len(src) - 1 ELSE Len(src)))]

\* mutant of ReSearch: pattern.match, which only matches at the start
ReSearch_Match(pat, s) ==
    /\ Len(pat.body) <= Len(s)
    /\ pat.end => Len(pat.body) = Len(s)
    /\ \A j \in 1..Len(pat.body) :
          \/ pat.body[j] = "."
          \/ LowerChar(pat.body[j]) = LowerChar(s[j])

\* pattern.search(s) is not None, under re.IGNORECASE
ReSearch(pat, s) ==
    \E off \in 0..(Len(s) - Len(pat.body)) :
        /\ pat.start => off = 0
        /\ pat.end => off + Len(pat.body) = Len(s)
        /\ \A j \in 1..Len(pat.body) :
              \/ pat.body[j] = "."
              \/ LowerChar(pat.body[j]) = LowerChar(s[off + j])

----------------------------------------------------------------------------
(* JSON values as json.load returns them.  A dict is an ordered sequence   *)
(* of <<key, value>> pairs (Python dicts keep the file's order); the value *)
(* a catalog file parses to is tagged with its kind, a list inside a       *)
(* catalog is a plain sequence.                                            *)

Dict(items) == [kind |-> "dict", items |-> items]
List(elems) == [kind |-> "list", elems |-> elems]
EmptyDict == Dict(<<>>)

\* the outcome of a call: a returned value or a raised exception
Return(value) == [kind |-> "return", value |-> value]
Raise(exc) == [kind |-> "raise", exc |-> exc]
IsRaise(v) == v.kind = "raise"
NoOutcome == [kind |-> "none"]

\* k in d
HasKey(d, k) == \E i \in 1..Len(d.items) : d.items[i][1] = k

\* d[k], for k in d
Item(d, k) == d.items[CHOOSE i \in 1..Len(d.items) : d.items[i][1] = k][2]

\* d.get(k, default)
Get(d, k, default) == IF HasKey(d, k) THEN Item(d, k) ELSE default

----------------------------------------------------------------------------
(* BodyClassClassifier: the five tiers *)

\* mutant of CheckHistoricalOverride: the range's upper end is excluded
CheckHistoricalOverride_ExclusiveEnd(ovr, manufacturer, model, year) ==
    LET overrides_list == Get(ovr, "overrides", <<>>)
        Hit(override) ==
            /\ Lower(Item(override, "manufacturer")) = Lower(manufacturer)
            /\ Lower(Item(override, "model")) = Lower(model)
            /\ Item(override, "year_range")[1] <= year
            /\ year < Item(override, "year_range")[2]
        i == First([n \in 1..Len(overrides_list) |-> Hit(overrides_list[n])])
    IN  IF i = 0 THEN None ELSE Item(overrides_list[i], "body_class")

\* one iteration of the loop of _check_historical_override: the entry is
\* passed over ("miss"), its body_class is returned ("hit"), or a
\* subscript of the entry names a key the entry does not have ("KeyError")
OverrideStep(override, manufacturer_lower, model_lower, year) ==
    IF ~HasKey(override, "manufacturer") THEN "KeyError"
    ELSE IF Lower(Item(override, "manufacturer")) # manufacturer_lower THEN "miss"
    ELSE IF ~HasKey(override, "model") THEN "KeyError"
    ELSE IF Lower(Item(override, "model")) # model_lower THEN "miss"
    ELSE IF ~HasKey(override, "year_range") THEN "KeyError"
    ELSE IF ~(/\ Item(override, "year_range")[1] <= year
              /\ year <= Item(override, "year_range")[2]) THEN "miss"
    ELSE IF ~HasKey(override, "body_class") THEN "KeyError"
    ELSE "hit"

\* _check_historical_override(manufacturer, model, year) leaves by KeyError:
\* the first entry that is not passed over lacks a key
CheckHistoricalOverrideRaises(ovr, manufacturer, model, year) ==
    LET overrides_list == Get(ovr, "overrides", <<>>)
        manufacturer_lower == Lower(manufacturer)
        model_lower == Lower(model)
        steps == [n \in 1..Len(overrides_list) |->
                    OverrideStep(overrides_list[n], manufacturer_lower,
                                 model_lower, year)]
        i == First([n \in 1..Len(overrides_list) |-> steps[n] # "miss"])
    IN  i # 0 /\ steps[i] = "KeyError"

\* _check_historical_override(manufacturer, model, year), the value it
\* returns when it returns
CheckHistoricalOverride(ovr, manufacturer, model, year) ==
    LET overrides_list == Get(ovr, "overrides", <<>>)
        manufacturer_lower == Lower(manufacturer)
        model_lower == Lower(model)
        Hit(override) ==
            OverrideStep(override, manufacturer_lower, model_lower, year) = "hit"
        i == First([n \in 1..Len(overrides_list) |-> Hit(overrides_list[n])])
    IN  IF i = 0 THEN None ELSE Item(overrides_list[i], "body_class")

\* mutant of CheckExactMatch: the scan keeps the last class that holds the
\* model, not the first
CheckExactMatch_LastClass(pat, model) ==
    LET patterns_data == Get(pat, "patterns", EmptyDict)
        model_lower == Lower(model)
        n == Len(patterns_data.items)
        Hit(item) ==
            LET exact_matches == Get(item[2], "exact_matches", <<>>)
            IN  \E k \in 1..Len(exact_matches) :
                    model_lower = Lower(exact_matches[k])
        i == First([k \in 1..n |-> Hit(patterns_data.items[n + 1 - k])])
    IN  IF i = 0 THEN None ELSE patterns_data.items[n + 1 - i][1]

\* _check_exact_match(model)
CheckExactMatch(pat, model) ==
    LET patterns_data == Get(pat, "patterns", EmptyDict)
        model_lower == Lower(model)
        Hit(item) ==
            LET exact_matches == Get(item[2], "exact_matches", <<>>)
            IN  \E k \in 1..Len(exact_matches) :
                    model_lower = Lower(exact_matches[k])
        i == First([n \in 1..Len(patterns_data.items) |-> Hit(patterns_data.items[n])])
    IN  IF i = 0 THEN None ELSE patterns_data.items[i][1]

\* _check_regex_match(model)
CheckRegexMatch(compiled, model) ==
    LET Hit(item) ==
            \E k \in 1..Len(item[2]) : ReSearch(item[2][k], model)
        i == First([n \in 1..Len(compiled.items) |-> Hit(compiled.items[n])])
    IN  IF i = 0 THEN None ELSE compiled.items[i][1]

\* mutant of CheckManufacturerDefault: the substring loop runs before the
\* lookup of the model as a key
CheckManufacturerDefault_LoopFirst(pat, manufacturer, model) ==
    LET defaults == Get(pat, "manufacturer_defaults", EmptyDict)
        mfr_defaults == Get(defaults, manufacturer, EmptyDict)
        model_lower == Lower(model)
        Hit(item) == Contains(Lower(item[1]), model_lower)
        i == First([n \in 1..Len(mfr_defaults.items) |-> Hit(mfr_defaults.items[n])])
    IN  IF i # 0 THEN mfr_defaults.items[i][2]
        ELSE IF HasKey(mfr_defaults, model) THEN Item(mfr_defaults, model)
        ELSE None

\* _check_manufacturer_default(manufacturer, model)
CheckManufacturerDefault(pat, manufacturer, model) ==
    LET defaults == Get(pat, "manufacturer_defaults", EmptyDict)
        mfr_defaults == Get(defaults, manufacturer, EmptyDict)
        model_lower == Lower(model)
        Hit(item) == Contains(Lower(item[1]), model_lower)
        i == First([n \in 1..Len(mfr_defaults.items) |-> Hit(mfr_defaults.items[n])])
    IN  IF HasKey(mfr_defaults, model) THEN Item(mfr_defaults, model)
        ELSE IF i = 0 THEN None
        ELSE mfr_defaults.items[i][2]

W_roadster == <<"r","o","a","d","s","t","e","r">>
W_speedster == <<"s","p","e","e","d","s","t","e","r">>
W_racer == <<"r","a","c","e","r">>
W_truck == <<"t","r","u","c","k">>
W_pickup == <<"p","i","c","k","u","p">>
W_150 == <<"1","5","0">>
W_250 == <<"2","5","0">>
W_350 == <<"3","5","0">>
W_van == <<"v","a","n">>
W_caravan == <<"c","a","r","a","v","a","n">>
W_voyager == <<"v","o","y","a","g","e","r">>
W_sport == <<"s","p","o","r","t">>
W_gt == <<"g","t">>
W_gto == <<"g","t","o">>
W_ss == <<"s","s">>
W_rt == <<"r","/","t">>
W_wagon == <<"w","a","g","o","n">>
W_estate == <<"e","s","t","a","t","e">>

\* mutant of FallbackClassification: the pre-1930 words are looked for in
\* the model as given, not in its lowercased form
FallbackClassification_CaseSensitive(manufacturer, model, year) ==
    IF year < 1930
    THEN IF AnyIn(<<W_roadster, W_speedster, W_racer>>, model)
         THEN "Roadster"
         ELSE "Touring Car"
    ELSE "Sedan"

\* mutant of FallbackClassification: 1930 still counts as historical
FallbackClassification_Through1930(manufacturer, model, year) ==
    LET model_lower == Lower(model)
    IN  IF year <= 1930
        THEN IF AnyIn(<<W_roadster, W_speedster, W_racer>>, model_lower)
             THEN "Roadster"
             ELSE "Touring Car"
        ELSE IF AnyIn(<<W_truck, W_pickup, W_150, W_250, W_350>>, model_lower)
             THEN "Pickup"
        ELSE IF AnyIn(<<W_van, W_caravan, W_voyager>>, model_lower)
             THEN "Van"
        ELSE IF AnyIn(<<W_sport, W_gt, W_gto, W_ss, W_rt>>, model_lower)
             THEN "Sports Car"
        ELSE IF AnyIn(<<W_wagon, W_estate>>, model_lower)
             THEN "Wagon"
        ELSE "Sedan"

\* _fallback_classification(manufacturer, model, year)
FallbackClassification(manufacturer, model, year) ==
    LET model_lower == Lower(model)
    IN  IF year < 1930
        THEN IF AnyIn(<<W_roadster, W_speedster, W_racer>>, model_lower)
             THEN "Roadster"
             ELSE "Touring Car"
        ELSE IF AnyIn(<<W_truck, W_pickup, W_150, W_250, W_350>>, model_lower)
             THEN "Pickup"
        ELSE IF AnyIn(<<W_van, W_caravan, W_voyager>>, model_lower)
             THEN "Van"
        ELSE IF AnyIn(<<W_sport, W_gt, W_gto, W_ss, W_rt>>, model_lower)
             THEN "Sports Car"
        ELSE IF AnyIn(<<W_wagon, W_estate>>, model_lower)
             THEN "Wagon"
        ELSE "Sedan"

\* self.stats as __init__ sets it
InitStats ==
    [total |-> 0, historical_override |-> 0, exact_match |-> 0,
     regex_match |-> 0, manufacturer_default |-> 0, fallback |-> 0,
     by_body_class |-> <<>>]

\* _update_body_class_stats(body_class); by_body_class is a function from
\* the labels seen so far to their counts
UpdateBodyClassStats(st, body_class) ==
    LET old == st.by_body_class
        withKey == IF body_class \notin DOMAIN old
                   THEN [b \in DOMAIN old \cup {body_class} |->
                            IF b = body_class THEN 0 ELSE old[b]]
                   ELSE old
    IN  [st EXCEPT !.by_body_class = [withKey EXCEPT ![body_class] = @ + 1]]

\* mutant of Decide: the exact-match tier is consulted before the overrides
Decide_ExactFirst(pat, ovr, compiled, manufacturer, model, year) ==
    LET override_class == CheckHistoricalOverride(ovr, manufacturer, model, year)
        exact_class == CheckExactMatch(pat, model)
        regex_class == CheckRegexMatch(compiled, model)
        default_class == CheckManufacturerDefault(pat, manufacturer, model)
        fallback_class == FallbackClassification(manufacturer, model, year)
    IN  IF Truthy(exact_class) THEN <<exact_class, "exact_match">>
        ELSE IF Truthy(override_class) THEN <<override_class, "historical_override">>
        ELSE IF Truthy(regex_class) THEN <<regex_class, "regex_match">>
        ELSE IF Truthy(default_class) THEN <<default_class, "manufacturer_default">>
        ELSE <<fallback_class, "fallback">>

\* the tier that decides classify, with its class: the cascade of
\* classify's lines 99-131 without the counters
Decide(pat, ovr, compiled, manufacturer, model, year) ==
    LET override_class == CheckHistoricalOverride(ovr, manufacturer, model, year)
        exact_class == CheckExactMatch(pat, model)
        regex_class == CheckRegexMatch(compiled, model)
        default_class == CheckManufacturerDefault(pat, manufacturer, model)
        fallback_class == FallbackClassification(manufacturer, model, year)
    IN  IF Truthy(override_class) THEN <<override_class, "historical_override">>
        ELSE IF Truthy(exact_class) THEN <<exact_class, "exact_match">>
        ELSE IF Truthy(regex_class) THEN <<regex_class, "regex_match">>
        ELSE IF Truthy(default_class) THEN <<default_class, "manufacturer_default">>
        ELSE <<fallback_class, "fallback">>

\* mutant of Classify: once a call has fallen back, every later call does
Classify_StickyFallback(pat, ovr, compiled, st, manufacturer, model, year) ==
    LET st1 == [st EXCEPT !.total = @ + 1]
        m == Strip(manufacturer)
        d == Strip(model)
        r == IF st.fallback > 0
             THEN <<FallbackClassification(m, d, year), "fallback">>
             ELSE Decide(pat, ovr, compiled, m, d, year)
        st2 == [st1 EXCEPT ![r[2]] = @ + 1]
    IN  [ret |-> Return(r), stats |-> UpdateBodyClassStats(st2, r[1])]

\* mutant of Classify: the total is counted on the fallback path only
Classify_TotalOnFallback(pat, ovr, compiled, st, manufacturer, model, year) ==
    LET r == Decide(pat, ovr, compiled, Strip(manufacturer), Strip(model), year)
        st1 == IF r[2] = "fallback" THEN [st EXCEPT !.total = @ + 1] ELSE st
        st2 == [st1 EXCEPT ![r[2]] = @ + 1]
    IN  [ret |-> Return(r), stats |-> UpdateBodyClassStats(st2, r[1])]

\* classify(manufacturer, model, year): the value returned (or the exception
\* raised) and self.stats afterwards
Classify(pat, ovr, compiled, st, manufacturer, model, year) ==
    LET st1 == [st EXCEPT !.total = @ + 1]
        m == Strip(manufacturer)
        d == Strip(model)
    IN  IF ovr.kind # "dict"
        THEN [ret |-> Raise("AttributeError"), stats |-> st1]
        ELSE IF CheckHistoricalOverrideRaises(ovr, m, d, year)
        THEN [ret |-> Raise("KeyError"), stats |-> st1]
        ELSE LET r == Decide(pat, ovr, compiled, m, d, year)
                 st2 == [st1 EXCEPT ![r[2]] = @ + 1]
             IN  [ret |-> Return(r), stats |-> UpdateBodyClassStats(st2, r[1])]

\* _compile_patterns(): the compiled dict, or the exception raised.  The
\* loop stops at the first body class whose data has no .get (it is not a
\* dict) or holds a pattern that re.compile rejects.
CompilePatterns(pat) ==
    IF pat.kind # "dict" THEN Raise("AttributeError")
    ELSE LET patterns_data == Get(pat, "patterns", EmptyDict)
         IN  IF patterns_data.kind # "dict" THEN Raise("AttributeError")
             ELSE
             LET data(i) == patterns_data.items[i][2]
                 fails == [i \in 1..Len(patterns_data.items) |->
                             \/ data(i).kind # "dict"
                             \/ LET rp == Get(data(i), "regex_patterns", <<>>)
                                IN  \E k \in 1..Len(rp) : ~RegexValid(rp[k])]
                 bad == First(fails)
             IN  IF bad # 0
                 THEN IF data(bad).kind # "dict" THEN Raise("AttributeError")
                      ELSE Raise(ReError)
                 ELSE Dict([i \in 1..Len(patterns_data.items) |->
                         LET rp == Get(data(i), "regex_patterns", <<>>)
                         IN  <<patterns_data.items[i][1],
                               [k \in 1..Len(rp) |-> ReCompile(rp[k])]>>])

----------------------------------------------------------------------------
(* BodyClassClassifier: construction *)

\* a catalog file on disk
FileMissing == [state |-> "missing"]
FileUnparseable == [state |-> "unparseable"]
FileJson(value) == [state |-> "json", value |-> value]

\* _load_json(filepath): FileNotFoundError and JSONDecodeError give {}
LoadJson(file) == IF file.state = "json" THEN file.value ELSE EmptyDict

\* __init__: the object's fields, or the exception construction raises
Construct(fs) ==
    LET pat == LoadJson(fs.patterns_file)
        ovr == LoadJson(fs.overrides_file)
        tax == LoadJson(fs.taxonomy_file)
        compiled == CompilePatterns(pat)
    IN  IF IsRaise(compiled)
        THEN compiled
        ELSE [kind |-> "object", patterns |-> pat, overrides |-> ovr,
              taxonomy |-> tax, compiled_patterns |-> compiled,
              stats |-> InitStats]

----------------------------------------------------------------------------
(* VINGenerator: the seeded sequence.  self.state is below 2^32 and does   *)
(* not fit the checker's integers, so it is held as two 16-bit limbs,      *)
(* state = hi * 2^16 + lo, and every product is formed limb by limb.       *)

Limb == 65536
LcgMultiplier == 1664525
LcgIncrement == 1013904223

\* the generator state for an integer value given by its limbs
State32(hi, lo) == [hi |-> hi, lo |-> lo]

\* mutant of NextState: the high limb is not reduced
NextState_NoWrap(st) ==
    LET low == st.lo * (LcgMultiplier % Limb) + (LcgIncrement % Limb)
        high == st.hi * (LcgMultiplier % Limb) + st.lo * (LcgMultiplier \div Limb)
                  + (LcgIncrement \div Limb) + (low \div Limb)
    IN  State32(high, low % Limb)

\* _seeded_random(), the assignment: (state * 1664525 + 1013904223) % 2^32
NextState(st) ==
    LET low == st.lo * (LcgMultiplier % Limb) + (LcgIncrement % Limb)
        high == st.hi * (LcgMultiplier % Limb) + st.lo * (LcgMultiplier \div Limb)
                  + (LcgIncrement \div Limb) + (low \div Limb)
    IN  State32(high % Limb, low % Limb)

\* _seeded_random(): the new state, and the draw state / 2^32 held by its
\* numerator (a quotient of an integer below 2^53 by 2^32 is exact in a double)
SeededRandom(st) ==
    LET st1 == NextState(st)
    IN  [value |-> [numerator |-> st1, denominator |-> <<2, 32>>], state |-> st1]

\* ord(char) for the characters of the identifiers used here
Ord(char) ==
    CASE char = "f" -> 102
      [] char = "-" -> 45
      [] char = "1" -> 49

\* x & 0xFFFFFFFF for an integer x = hi * 2^16 + lo with 0 <= lo
Mask32(x) == State32((x.hi + x.lo \div Limb) % Limb, x.lo % Limb)

\* abs(x) for an integer x = hi * 2^16 + lo with 0 <= lo < 2^16
AbsInt(x) ==
    IF x.hi >= 0 THEN x
    ELSE IF x.lo = 0 THEN State32(-x.hi, 0)
    ELSE State32(-x.hi - 1, Limb - x.lo)

\* mutant of HashStep: the shifted value is added to, not reduced by, the hash
HashStep_Times33(hash_val, char) ==
    Mask32(State32(hash_val.hi * 32 + hash_val.hi,
                   hash_val.lo * 32 + hash_val.lo + Ord(char)))

\* hash_string, the loop body: ((hash_val << 5) - hash_val) + ord(char),
\* then & 0xFFFFFFFF
HashStep(hash_val, char) ==
    Mask32(State32(hash_val.hi * 32 - hash_val.hi,
                   hash_val.lo * 32 - hash_val.lo + Ord(char)))

\* hash_string, the loop from character i on
RECURSIVE HashLoop(_, _, _)
HashLoop(s, i, hash_val) ==
    IF i > Len(s) THEN hash_val
    ELSE HashLoop(s, i + 1, HashStep(hash_val, s[i]))

\* hash_string(s)
HashString(s) == AbsInt(HashLoop(s, 1, State32(0, 0)))

\* int(roll * n) for the draw roll = state / 2^32 and an integer n: the
\* product state * n is exact in a double, so this is floor(state * n / 2^32)
ScaledInt(st, n) == (st.hi * n + (st.lo * n) \div Limb) \div Limb

\* roll < percent / 100 for the draw roll = state / 2^32 (no threshold of
\* the code falls on a value a draw can take)
Below(st, percent) == ScaledInt(st, 100) < percent

\* int(roll * a * b) for the draw roll = state / 2^32 and integers
\* 0 <= a < 2^15, 0 <= b < 2^15: floor(state * a * b / 2^32), limb by limb
ScaledProduct(st, a, b) ==
    LET x0 == st.lo * a
        x1 == st.hi * a + x0 \div Limb
        y0 == (x0 % Limb) * b
        y1 == (x1 % Limb) * b + y0 \div Limb
    IN  (x1 \div Limb) * b + y1 \div Limb

Digits == <<"0","1","2","3","4","5","6","7","8","9">>

\* str(n) for n >= 0
RECURSIVE DecStr(_)
DecStr(n) ==
    IF n < 10 THEN <<Digits[n + 1]>>
    ELSE Append(DecStr(n \div 10), Digits[(n % 10) + 1])

\* str(n) for any integer n
Str(n) == IF n < 0 THEN <<"-">> \o DecStr(-n) ELSE DecStr(n)

\* s.zfill(width) for a string without sign
RECURSIVE ZFill(_, _)
ZFill(s, width) == IF Len(s) >= width THEN s ELSE ZFill(<<"0">> \o s, width)

\* s[:n]
Prefix(s, n) == SubSeq(s, 1, IF Len(s) < n THEN Len(s) ELSE n)

Plants == <<"R", "F", "T", "D", "A">>

\* mutant of GeneratePre1981Vin: the year code is the first digit of the year
GeneratePre1981Vin_FirstDigit(st, manufacturer, year, index) ==
    LET st1 == NextState(st)
        year_code == <<Str(year)[1]>>
        plant == <<Plants[ScaledInt(st1, Len(Plants)) + 1]>>
        serial == ZFill(Str(100000 + index), 6)
    IN  [vin |-> year_code \o plant \o <<"0","1","C">> \o serial, state |-> st1]

\* generate_pre_1981_vin(manufacturer, year, index): one draw
GeneratePre1981Vin(st, manufacturer, year, index) ==
    LET st1 == NextState(st)
        year_code == <<Str(year)[Len(Str(year))]>>
        plant == <<Plants[ScaledInt(st1, Len(Plants)) + 1]>>
        serial == ZFill(Str(100000 + index), 6)
    IN  [vin |-> year_code \o plant \o <<"0","1","C">> \o serial, state |-> st1]

YearCodes == <<"A","B","C","D","E","F","G","H","J","K","L","M","N","P","R",
               "S","T","V","W","X","Y","1","2","3","4","5","6","7","8","9">>

\* mutant of GeneratePost1981Vin: the year codes are counted from 1981
GeneratePost1981Vin_Epoch1981(st, manufacturer, year, index) ==
    LET country == <<"1">>
        mfr_code == Upper(Prefix(manufacturer, 2))
        year_index == (year - 1981) % Len(YearCodes)
        year_code == <<YearCodes[year_index + 1]>>
        plant == <<"F">>
        serial == ZFill(Str(100000 + index), 6)
    IN  [vin |-> country \o mfr_code \o <<"B","P","4","0","E","9">>
                   \o year_code \o plant \o serial,
         state |-> st]

\* generate_post_1981_vin(manufacturer, year, index): no draw
GeneratePost1981Vin(st, manufacturer, year, index) ==
    LET country == <<"1">>
        mfr_code == Upper(Prefix(manufacturer, 2))
        year_index == (year - 1980) % Len(YearCodes)
        year_code == <<YearCodes[year_index + 1]>>
        plant == <<"F">>
        serial == ZFill(Str(100000 + index), 6)
    IN  [vin |-> country \o mfr_code \o <<"B","P","4","0","E","9">>
                   \o year_code \o plant \o serial,
         state |-> st]

\* generate_condition(): one draw
GenerateCondition(st) ==
    LET st1 == NextState(st)
        c == IF Below(st1, 5) THEN [rating |-> 5, description |-> "Concours"]
             ELSE IF Below(st1, 20) THEN [rating |-> 4, description |-> "Excellent"]
             ELSE IF Below(st1, 55) THEN [rating |-> 3, description |-> "Good"]
             ELSE IF Below(st1, 85) THEN [rating |-> 2, description |-> "Fair"]
             ELSE [rating |-> 1, description |-> "Project"]
    IN  [condition |-> c, state |-> st1]

\* generate_mileage(year): two draws.  With tenths = 10 * multiplier,
\* int(age * (5000 + roll * 7000) * multiplier) is, toward zero,
\* age * tenths * 500 + age * tenths * 700 * state / 2^32.
GenerateMileage(st, year) ==
    LET age == 2025 - year
        st1 == NextState(st)
        st2 == NextState(st1)
        tenths == IF Below(st2, 20) THEN 3
                  ELSE IF Below(st2, 70) THEN 8
                  ELSE IF Below(st2, 95) THEN 15
                  ELSE 25
        a == IF age >= 0 THEN age * tenths ELSE (-age) * tenths
        magnitude == a * 500 + ScaledProduct(st1, a, 700)
    IN  [mileage |-> IF age >= 0 THEN magnitude ELSE -magnitude, state |-> st2]

StateCodes == <<"CA", "TX", "FL", "AZ", "OH", "MI", "NY", "PA">>
StateWeights == <<15, 8, 7, 5, 4, 4, 3, 3>>

RECURSIVE SumTo(_, _)
\* weights[1] + ... + weights[k]
SumTo(weights, k) == IF k = 0 THEN 0 ELSE SumTo(weights, k - 1) + weights[k]

\* mutant of GenerateState: the roll is scaled by twice the total weight
GenerateState_DoubleTotal(st) ==
    LET st1 == NextState(st)
        total_weight == 2 * SumTo(StateWeights, Len(StateWeights))
        hits == [k \in 1..Len(StateCodes) |->
                    ScaledInt(st1, total_weight) < SumTo(StateWeights, k)]
        k == First(hits)
    IN  [code |-> IF k = 0 THEN "CA" ELSE StateCodes[k], inLoop |-> k # 0,
         state |-> st1]

\* generate_state(): one draw; roll = draw * total_weight loses weight after
\* weight and the first state that brings it to <= 0 is returned, 'CA' when
\* the loop ends without a return
GenerateState(st) ==
    LET st1 == NextState(st)
        total_weight == SumTo(StateWeights, Len(StateWeights))
        hits == [k \in 1..Len(StateCodes) |->
                    ScaledInt(st1, total_weight) < SumTo(StateWeights, k)]
        k == First(hits)
    IN  [code |-> IF k = 0 THEN "CA" ELSE StateCodes[k], inLoop |-> k # 0,
         state |-> st1]

Pre1970Colors == <<"Wimbledon White", "Candy Apple Red", "Springtime Yellow",
                   "Arcadian Blue", "Ivy Gold", "Silver Smoke Gray">>
Post1970Colors == <<"Bright Red", "Black", "White", "Silver Metallic",
                    "Dark Blue Metallic", "Green Metallic">>

\* generate_color(year): one draw
GenerateColor(st, year) ==
    LET st1 == NextState(st)
        colors == IF year < 1970 THEN Pre1970Colors ELSE Post1970Colors
    IN  [color |-> colors[ScaledInt(st1, Len(colors)) + 1], state |-> st1]

AllOptions == <<"Power Steering", "Power Disc Brakes", "Air Conditioning",
                "GT Equipment Group", "Interior Decor Group", "Rally Pac Gauges",
                "AM/FM Radio", "Tinted Glass">>

\* the loop of generate_options: n more iterations, one draw each
RECURSIVE OptionsLoop(_, _, _)
OptionsLoop(st, selected, n) ==
    IF n = 0 THEN [options |-> selected, state |-> st]
    ELSE LET st1 == NextState(st)
             option == AllOptions[ScaledInt(st1, Len(AllOptions)) + 1]
         IN  OptionsLoop(st1,
                         IF \E i \in 1..Len(selected) : selected[i] = option
                         THEN selected ELSE Append(selected, option),
                         n - 1)

\* generate_options(condition_rating): one draw for the count, one per pick
GenerateOptions(st, condition_rating) ==
    LET st1 == NextState(st)
        option_count == ScaledInt(st1, condition_rating * 3)
    IN  OptionsLoop(st1, <<>>,
                    IF option_count < Len(AllOptions) THEN option_count
                    ELSE Len(AllOptions))

\* base_values[condition_rating], in thousands
BaseValueThousands == <<15, 25, 40, 65, 100>>

\* calculate_value(condition_rating, mileage, options): one draw.  The value
\* before the variance is a whole number w of thousands, and
\* int(1000 w * (0.9 + roll * 0.2)) = 900 w + floor(200 w * roll).
CalculateValue(st, condition_rating, mileage, options) ==
    LET base == BaseValueThousands[condition_rating]
        adjusted == IF mileage < 50000 THEN (base * 12) \div 10
                    ELSE IF mileage > 150000 THEN (base * 8) \div 10
                    ELSE base
        w == adjusted + Len(options) * 2
        st1 == NextState(st)
    IN  [value |-> 900 * w + ScaledInt(st1, 200 * w), state |-> st1]

\* VINGenerator(seed): self.seed and self.state both start as the seed
NewGenerator(seed) == [seed |-> seed, state |-> seed]

\* mutant of GenerateVin: 1980 is given the long format
GenerateVin_Before1980(st, manufacturer, year, index) ==
    IF year < 1980 THEN GeneratePre1981Vin(st, manufacturer, year, index)
    ELSE GeneratePost1981Vin(st, manufacturer, year, index)

\* the conditional expression that generate_instance assigns to vin
GenerateVin(st, manufacturer, year, index) ==
    IF year <= 1980 THEN GeneratePre1981Vin(st, manufacturer, year, index)
    ELSE GeneratePost1981Vin(st, manufacturer, year, index)

\* mutant of GenerateInstance: the four flags are drawn before days_ago
GenerateInstance_DateLast(st, vehicle_data, index, today) ==
    LET manufacturer == vehicle_data.manufacturer
        year == vehicle_data.year
        v == GenerateVin(st, manufacturer, year, index)
        c == GenerateCondition(v.state)
        m == GenerateMileage(c.state, year)
        s == GenerateState(m.state)
        col == GenerateColor(s.state, year)
        o == GenerateOptions(col.state, c.condition.rating)
        val == CalculateValue(o.state, c.condition.rating, m.mileage, o.options)
        st_verified == NextState(val.state)
        st_registration == NextState(st_verified)
        st_title == NextState(st_registration)
        st_matching == NextState(st_title)
        st_days == NextState(st_matching)
        days_ago == ScaledInt(st_days, 180)
    IN  [record |->
            [vin |-> v.vin,
             manufacturer |-> manufacturer,
             model |-> vehicle_data.model,
             year |-> year,
             body_class |-> vehicle_data.body_class,
             vehicle_id |-> vehicle_data.vehicle_id,
             condition_rating |-> c.condition.rating,
             condition_description |-> c.condition.description,
             mileage |-> m.mileage,
             mileage_verified |-> ~Below(st_verified, 20),
             registered_state |-> s.code,
             registration_status |-> IF ~Below(st_registration, 55)
                                     THEN "Active" ELSE "Historic",
             title_status |-> IF ~Below(st_title, 10) THEN "Clean" ELSE "Rebuilt",
             exterior_color |-> col.color,
             factory_options |-> o.options,
             estimated_value |-> val.value,
             matching_numbers |-> ~Below(st_matching, 40),
             last_service_date |-> today - days_ago],
         state |-> st_days]

\* generate_instance(vehicle_data, index).  The draws are made in the order
\* of the statements: the VIN, condition, mileage, state, color, options,
\* value, days_ago, and then the four draws inside the returned dict in the
\* order of its keys.  datetime.now() is the day `today`; a date formatted
\* as '%Y-%m-%d' is its day number.
GenerateInstance(st, vehicle_data, index, today) ==
    LET manufacturer == vehicle_data.manufacturer
        year == vehicle_data.year
        v == GenerateVin(st, manufacturer, year, index)
        c == GenerateCondition(v.state)
        m == GenerateMileage(c.state, year)
        s == GenerateState(m.state)
        col == GenerateColor(s.state, year)
        o == GenerateOptions(col.state, c.condition.rating)
        val == CalculateValue(o.state, c.condition.rating, m.mileage, o.options)
        st_days == NextState(val.state)
        days_ago == ScaledInt(st_days, 180)
        st_verified == NextState(st_days)
        st_registration == NextState(st_verified)
        st_title == NextState(st_registration)
        st_matching == NextState(st_title)
    IN  [record |->
            [vin |-> v.vin,
             manufacturer |-> manufacturer,
             model |-> vehicle_data.model,
             year |-> year,
             body_class |-> vehicle_data.body_class,
             vehicle_id |-> vehicle_data.vehicle_id,
             condition_rating |-> c.condition.rating,
             condition_description |-> c.condition.description,
             mileage |-> m.mileage,
             mileage_verified |-> ~Below(st_verified, 20),
             registered_state |-> s.code,
             registration_status |-> IF ~Below(st_registration, 55)
                                     THEN "Active" ELSE "Historic",
             title_status |-> IF ~Below(st_title, 10) THEN "Clean" ELSE "Rebuilt",
             exterior_color |-> col.color,
             factory_options |-> o.options,
             estimated_value |-> val.value,
             matching_numbers |-> ~Below(st_matching, 40),
             last_service_date |-> today - days_ago],
         state |-> st_matching]

----------------------------------------------------------------------------
(* distribute_vins_across_vehicles *)

MinVinsPerVehicle == 5

(* proportion = instance_count / total_instances is a double, and so is the  *)
(* product target_count * proportion that int() truncates                  *)

\* a double keeps 53 binary digits of a number, from its first 1 on
SignificandBits == 53

\* A number x >= 0 is held as its whole part and the binary digits of its
\* fraction, the digits in limbs of 16, first limb first.
Number(whole, limbs) == [whole |-> whole, limbs |-> limbs]

LimbBits == 16

\* the k-th binary digit after the point (k >= 1), 0 beyond the last limb
Bit(limbs, k) ==
    IF k > LimbBits * Len(limbs) THEN 0
    ELSE (limbs[((k - 1) \div LimbBits) + 1]
             \div 2 ^ (LimbBits - 1 - ((k - 1) % LimbBits))) % 2

\* the number of binary digits of an integer 0 <= n < 2^30
BitLength(n) == CHOOSE e \in 0..30 : n < 2 ^ e /\ (e = 0 \/ n >= 2 ^ (e - 1))

\* limbs[1..i] plus `unit` in limb i, the carry running towards the whole
\* part
RECURSIVE AddUnit(_, _, _, _)
AddUnit(whole, limbs, i, unit) ==
    IF i = 0 THEN Number(whole + unit, limbs)
    ELSE IF limbs[i] + unit < Limb
    THEN Number(whole, [limbs EXCEPT ![i] = @ + unit])
    ELSE AddUnit(whole, [limbs EXCEPT ![i] = @ + unit - Limb], i - 1, 1)

\* round-to-nearest, ties-to-even, of a number to the digits a double keeps;
\* `sticky` tells that digits beyond the limbs are not all zero
RoundToDouble(x, sticky) ==
    IF x.whole = 0 /\ \A k \in 1..(LimbBits * Len(x.limbs)) : Bit(x.limbs, k) = 0
    THEN x
    ELSE
    LET first == CHOOSE k \in 1..(LimbBits * Len(x.limbs)) :
                     Bit(x.limbs, k) = 1 /\ \A j \in 1..(k - 1) : Bit(x.limbs, j) = 0
        \* digits kept after the point
        keep == IF x.whole > 0 THEN SignificandBits - BitLength(x.whole)
                ELSE first - 1 + SignificandBits
    IN  IF LimbBits * Len(x.limbs) <= keep THEN x
        ELSE
        LET i == ((keep - 1) \div LimbBits) + 1
            unit == 2 ^ (LimbBits - 1 - ((keep - 1) % LimbBits))
            kept == [j \in 1..i |-> IF j < i THEN x.limbs[j]
                                    ELSE (x.limbs[i] \div unit) * unit]
            rest == sticky \/ \E k \in (keep + 2)..(LimbBits * Len(x.limbs)) :
                                  Bit(x.limbs, k) = 1
            up == Bit(x.limbs, keep + 1) = 1 /\ (rest \/ Bit(x.limbs, keep) = 1)
        IN  IF up THEN AddUnit(x.whole, kept, i, unit) ELSE Number(x.whole, kept)

\* the first n limbs of r / d after the point, for 0 <= r < d < 2^15, and
\* the remainder left after them
RECURSIVE DivLimbs(_, _, _, _)
DivLimbs(r, d, n, acc) ==
    IF n = 0 THEN [limbs |-> acc, rem |-> r]
    ELSE DivLimbs((r * Limb) % d, d, n - 1, Append(acc, (r * Limb) \div d))

\* limbs that hold the 53 digits and the digit after them of any quotient
\* a / b >= 2^-15
QuotientLimbs == 5

\* the double a / b for integers 0 <= a <= b, 0 < b < 2^15
TrueDivide(a, b) ==
    IF a = b THEN Number(1, <<>>)
    ELSE LET q == DivLimbs(a, b, QuotientLimbs, <<>>)
         IN  RoundToDouble(Number(0, q.limbs), q.rem # 0)

\* n times the limbs 1..i of a fraction, from the last limb to the first,
\* for 0 <= n < 2^15
RECURSIVE MulLimbs(_, _, _, _)
MulLimbs(limbs, i, n, carry) ==
    IF i = 0 THEN Number(carry, limbs)
    ELSE MulLimbs([limbs EXCEPT ![i] = (@ * n + carry) % Limb], i - 1, n,
                  (limbs[i] * n + carry) \div Limb)

\* int(n * x) for an integer 0 <= n < 2^15 and a double 0 <= x <= 1: the
\* product is rounded to a double, then truncated
IntOfProduct(n, x) ==
    RoundToDouble(MulLimbs(x.limbs, Len(x.limbs), n, n * x.whole), FALSE).whole

RECURSIVE SumInstanceCount(_, _)
\* sum(v['instance_count'] for v in vehicles), over the first k vehicles
SumInstanceCount(vehicles, k) ==
    IF k = 0 THEN 0
    ELSE SumInstanceCount(vehicles, k - 1) + vehicles[k].instance_count

RECURSIVE SumVinCount(_, _)
\* sum(d['vin_count'] for d in distribution), over the first k entries
SumVinCount(distribution, k) ==
    IF k = 0 THEN 0
    ELSE SumVinCount(distribution, k - 1) + distribution[k].vin_count

\* distribution.sort(key=instance_count, reverse=True): the sort is stable,
\* entries of equal instance_count keep their order
SortByInstanceCount(distribution) ==
    LET n == Len(distribution)
        key(i) == distribution[i].vehicle.instance_count
        rank(i) == 1 + Cardinality({j \in 1..n :
                        key(j) > key(i) \/ (key(j) = key(i) /\ j < i)})
    IN  [p \in 1..n |-> distribution[CHOOSE i \in 1..n : rank(i) = p]]

RECURSIVE AddLoop_SmallestFirst(_, _, _)
\* mutant of AddLoop: the list is walked from its end
AddLoop_SmallestFirst(distribution, i, diff) ==
    IF i >= diff THEN distribution
    ELSE AddLoop_SmallestFirst(
             [distribution EXCEPT
                ![Len(distribution) - (i % Len(distribution))].vin_count = @ + 1],
             i + 1, diff)

RECURSIVE AddLoop(_, _, _)
\* for i in range(diff): distribution[i % len]['vin_count'] += 1
AddLoop(distribution, i, diff) ==
    IF i >= diff THEN distribution
    ELSE AddLoop([distribution EXCEPT
                    ![(i % Len(distribution)) + 1].vin_count = @ + 1],
                 i + 1, diff)

RECURSIVE RemoveLoop(_, _, _)
\* for i in range(abs(diff)): one VIN less where the entry is above the
\* minimum, nothing where it is not
RemoveLoop(distribution, i, diff) ==
    IF i >= diff THEN distribution
    ELSE LET k == (i % Len(distribution)) + 1
         IN  RemoveLoop(IF distribution[k].vin_count > MinVinsPerVehicle
                        THEN [distribution EXCEPT ![k].vin_count = @ - 1]
                        ELSE distribution,
                        i + 1, diff)

\* the first loop: the proportional distribution, for total_instances > 0
ProportionalDistribution(vehicles, target_count) ==
    LET total_instances == SumInstanceCount(vehicles, Len(vehicles))
    IN  [k \in 1..Len(vehicles) |->
            LET proportion == TrueDivide(vehicles[k].instance_count, total_instances)
                allocated == IntOfProduct(target_count, proportion)
            IN  [vehicle |-> vehicles[k],
                 vin_count |-> IF allocated > MinVinsPerVehicle
                               THEN allocated ELSE MinVinsPerVehicle]]

\* distribute_vins_across_vehicles(vehicles, target_count), target_count >= 0
DistributeVins(vehicles, target_count) ==
    LET total_instances == SumInstanceCount(vehicles, Len(vehicles))
    IN  IF Len(vehicles) > 0 /\ total_instances = 0
        THEN Raise("ZeroDivisionError")
        ELSE
        LET distribution == ProportionalDistribution(vehicles, target_count)
            current_total == SumVinCount(distribution, Len(distribution))
            diff == target_count - current_total
        IN  IF current_total = target_count THEN Return(distribution)
            ELSE IF Len(distribution) = 0 THEN Raise("ZeroDivisionError")
            ELSE IF diff > 0
                 THEN Return(AddLoop(SortByInstanceCount(distribution), 0, diff))
                 ELSE Return(RemoveLoop(SortByInstanceCount(distribution), 0, -diff))

----------------------------------------------------------------------------
(* Inputs of the model: manufacturers, models, years and catalog contents *)

mFord == <<"F","o","r","d">>
mFordLower == <<" ","f","o","r","d">>
mUnknownCo == <<"U","n","k","n","o","w","n"," ","C","o">>
Manufacturers == {mFord, mFordLower, mUnknownCo}

dMustang == <<"M","u","s","t","a","n","g">>
dMustangUpper == <<" ","M","U","S","T","A","N","G"," ">>
dGTMustang == <<"G","T"," ","M","u","s","t","a","n","g">>
dF150 == <<"F","-","1","5","0">>
dThing == <<"T","h","i","n","g">>
dTRacer == <<"T"," ","R","a","c","e","r">>
Models == {dMustang, dMustangUpper, dGTMustang, dF150, dThing, dTRacer}

Years == {1925, 1929, 1930, 1967, 2020}

\* one entry of the override list
Override(mfr, mdl, lo, hi, bc) ==
    Dict(<< <<"manufacturer", mfr>>, <<"model", mdl>>,
            <<"year_range", <<lo, hi>> >>, <<"body_class", bc>> >>)

O1 == Override(mFord, dMustang, 1930, 1967, "Coupe")
O2 == Override(<<"F","O","R","D">>, <<"m","u","s","t","a","n","g">>, 1967, 2020, "Fastback")

\* contents of historical_overrides.json: no list, or two entries that
\* overlap in 1967, in both orders
OverrideCatalogs ==
    { EmptyDict,
      Dict(<< <<"overrides", <<O1, O2>> >> >>),
      Dict(<< <<"overrides", <<O2, O1>> >> >>) }

\* the value of one body class in the pattern catalog
PatternData(exact, regex) ==
    Dict(<< <<"exact_matches", exact>>, <<"regex_patterns", regex>> >>)

rMustang == <<"m","u","s","t","a","n","g">>
rUnbalanced == <<"(">>
rStartMust == <<"^","m","u","s","t">>
rEndAng == <<"a","n","g","$">>
rAnyAng == <<"m",".","s","t">>

\* the "patterns" section: exact and regex rules, with "Mustang" registered
\* under two classes (pdA) and two regex classes in both orders (pdB, pdC)
pdA == Dict(<< <<"Sports Car", PatternData(<<dMustang>>, <<rMustang>>)>>,
               <<"Pickup", PatternData(<<<<"m","u","s","t","a","n","g">>, dF150>>, <<rEndAng>>)>> >>)
pdB == Dict(<< <<"Sports Car", Dict(<< <<"regex_patterns", <<rMustang>> >> >>)>>,
               <<"Convertible", PatternData(<<>>, <<rStartMust, rEndAng>>)>> >>)
pdC == Dict(<< <<"Convertible", PatternData(<<>>, <<rAnyAng, rEndAng>>)>>,
               <<"Sports Car", Dict(<< <<"regex_patterns", <<rMustang>> >> >>)>> >>)

kFSeries == <<"F","-","S","e","r","i","e","s">>
kGT == <<"g","t">>
kF1 == <<"F","-","1">>

\* the "manufacturer_defaults" section
mdFSeries == Dict(<< <<mFord, Dict(<< <<kFSeries, "Pickup">> >>)>> >>)
mdFord == Dict(<< <<mFord, Dict(<< <<kGT, "Sports Car">>,
                                   <<dGTMustang, "Fastback">>,
                                   <<kF1, "Truck">> >>)>> >>)

\* contents of body_class_patterns.json: each section present or absent
PatternCatalogs ==
    { EmptyDict,
      Dict(<< <<"manufacturer_defaults", mdFord>> >>),
      Dict(<< <<"patterns", pdA>>, <<"manufacturer_defaults", mdFord>> >>),
      Dict(<< <<"patterns", pdB>>, <<"manufacturer_defaults", mdFSeries>> >>),
      Dict(<< <<"patterns", pdC>>, <<"manufacturer_defaults", mdFord>> >>) }

\* the catalog files a classifier of Spec is built from
GoodFiles ==
    { [patterns_file |-> IF p = EmptyDict THEN FileMissing ELSE FileJson(p),
       overrides_file |-> IF o = EmptyDict THEN FileMissing ELSE FileJson(o),
       taxonomy_file |-> FileMissing] :
        p \in PatternCatalogs, o \in OverrideCatalogs }

----------------------------------------------------------------------------
(* The classifier as a state machine: an instance built from its catalog   *)
(* files, then classify calls.                                             *)

NoCall == [manufacturer |-> <<>>, model |-> <<>>, year |-> 0]

\* the classifier is used by the thread that built it only
NoWorkers == <<>>

\* classify_and_prepare_updates is not running
NoJob == [pc |-> "none"]

\* a field of an object that has not been constructed
Unset == [kind |-> "unset"]

\* no generator is in use
GenIdle ==
    /\ generators = <<>>
    /\ produced = <<>>
    /\ requests = <<>>
    /\ now = 0

\* no distribution is in use
DistIdle ==
    /\ distVehicles = <<>>
    /\ distTarget = 0
    /\ distResult = NoOutcome

\* no classifier is in use
ClsIdle ==
    /\ files = [patterns_file |-> FileMissing, overrides_file |-> FileMissing,
                taxonomy_file |-> FileMissing]
    /\ patterns = Unset
    /\ overrides = Unset
    /\ taxonomy = Unset
    /\ compiled_patterns = Unset
    /\ stats = Unset
    /\ phase = "idle"
    /\ lastCall = NoCall
    /\ lastResult = NoOutcome
    /\ repeated = FALSE
    /\ workers = NoWorkers
    /\ job = NoJob

\* the state right after BodyClassClassifier() returned
Init ==
    /\ files \in GoodFiles
    /\ LET self == Construct(files)
       IN  /\ patterns = self.patterns
           /\ overrides = self.overrides
           /\ taxonomy = self.taxonomy
           /\ compiled_patterns = self.compiled_patterns
           /\ stats = self.stats
    /\ phase = "ready"
    /\ lastCall = NoCall
    /\ lastResult = NoOutcome
    /\ repeated = FALSE
    /\ workers = NoWorkers
    /\ job = NoJob
    /\ GenIdle
    /\ DistIdle

\* classifier.classify(manufacturer, model, year)
ClassifyCall(manufacturer, model, year) ==
    /\ phase = "ready"
    /\ stats.total < MaxCalls
    /\ LET c == Classify(patterns, overrides, compiled_patterns, stats,
                         manufacturer, model, year)
       IN  /\ stats' = c.stats
           /\ lastResult' = c.ret
    /\ lastCall' = [manufacturer |-> manufacturer, model |-> model, year |-> year]
    /\ repeated' = (stats.total > 0 /\ lastCall' = lastCall)
    /\ UNCHANGED <<patterns, overrides, taxonomy, compiled_patterns, files, phase,
                   workers, job>>
    /\ UNCHANGED <<genVars, distVars>>

Next ==
    \E manufacturer \in Manufacturers, model \in Models, year \in Years :
        ClassifyCall(manufacturer, model, year)

vars == <<clsVars, genVars, distVars>>

Spec == Init /\ [][Next]_vars

----------------------------------------------------------------------------
(* Construction of the classifier from catalog files of any shape, then    *)
(* classify calls on the object if there is one.                           *)

\* contents of body_class_patterns.json
PatternFiles ==
    { FileMissing, FileUnparseable,
      FileJson(Dict(<< <<"patterns", pdA>>, <<"manufacturer_defaults", mdFord>> >>)),
      FileJson(List(<<>>)),
      FileJson(Dict(<< <<"patterns", List(<<>>)>> >>)),
      FileJson(Dict(<< <<"patterns", Dict(<< <<"Sedan", List(<<>>)>> >>)>> >>)),
      FileJson(Dict(<< <<"patterns",
                         Dict(<< <<"Coupe", PatternData(<<>>, <<rUnbalanced>>)>> >>)>> >>)) }

\* override entries that lack a field
ONoModel ==
    Dict(<< <<"manufacturer", mFord>>, <<"year_range", <<1930, 1967>> >>,
            <<"body_class", "Coupe">> >>)
ONoBodyClass ==
    Dict(<< <<"manufacturer", mFord>>, <<"model", dThing>>,
            <<"year_range", <<1930, 1967>> >> >>)

\* contents of historical_overrides.json
OverrideFiles ==
    { FileMissing, FileUnparseable,
      FileJson(Dict(<< <<"overrides", <<O1>> >> >>)),
      FileJson(Dict(<< <<"overrides", <<ONoModel, O1>> >> >>)),
      FileJson(Dict(<< <<"overrides", <<O1, ONoBodyClass>> >> >>)),
      FileJson(List(<<>>)) }

\* contents of body_class_taxonomy.json
TaxonomyFiles ==
    { FileMissing, FileUnparseable, FileJson(EmptyDict), FileJson(List(<<>>)) }

AnyFiles ==
    { [patterns_file |-> p, overrides_file |-> o, taxonomy_file |-> t] :
        p \in PatternFiles, o \in OverrideFiles, t \in TaxonomyFiles }

\* the files are on disk, BodyClassClassifier() has not been called
InitLoad ==
    /\ files \in AnyFiles
    /\ patterns = Unset
    /\ overrides = Unset
    /\ taxonomy = Unset
    /\ compiled_patterns = Unset
    /\ stats = Unset
    /\ phase = "new"
    /\ lastCall = NoCall
    /\ lastResult = NoOutcome
    /\ repeated = FALSE
    /\ workers = NoWorkers
    /\ job = NoJob
    /\ GenIdle
    /\ DistIdle

\* BodyClassClassifier(): __init__ runs to its end, or an exception leaves it
\* and there is no object
ConstructCall ==
    /\ phase = "new"
    /\ LET self == Construct(files)
       IN  IF IsRaise(self)
           THEN /\ phase' = "failed"
                /\ lastResult' = self
                /\ UNCHANGED <<patterns, overrides, taxonomy, compiled_patterns,
                               stats>>
           ELSE /\ phase' = "ready"
                /\ patterns' = self.patterns
                /\ overrides' = self.overrides
                /\ taxonomy' = self.taxonomy
                /\ compiled_patterns' = self.compiled_patterns
                /\ stats' = self.stats
                /\ UNCHANGED lastResult
    /\ UNCHANGED <<lastCall, repeated, files, workers, job>>
    /\ UNCHANGED <<genVars, distVars>>

NextLoad ==
    \/ ConstructCall
    \/ \E manufacturer \in {mFord, mUnknownCo}, model \in {dMustang, dThing},
          year \in {1929, 1967} :
        ClassifyCall(manufacturer, model, year)

SpecLoad == InitLoad /\ [][NextLoad]_vars

----------------------------------------------------------------------------
(* Two VINGenerator instances, each used for generate_instance calls while *)
(* the calendar moves on.                                                  *)

Instances == {"a", "b"}

\* seeds, as hash_string gives them: integers below 2^32, by their limbs
Seeds == { State32(0, 0), State32(40503, 31153) }

vFord1965 ==
    [vehicle_id |-> "ford-mustang-1965", manufacturer |-> mFord,
     model |-> "Mustang", year |-> 1965, body_class |-> "Coupe"]
vFord1980 ==
    [vehicle_id |-> "ford-mustang-1980", manufacturer |-> mFord,
     model |-> "Mustang", year |-> 1980, body_class |-> "Coupe"]
vFord1981 ==
    [vehicle_id |-> "ford-mustang-1981", manufacturer |-> mFord,
     model |-> "Mustang", year |-> 1981, body_class |-> "Coupe"]
VehicleData == {vFord1965, vFord1980, vFord1981}

NoRecord == [vin |-> <<>>]
NoRequest == [calls |-> 0]

\* both generators constructed, no call made
InitGen ==
    /\ generators \in [Instances -> {NewGenerator(seed) : seed \in Seeds}]
    /\ produced = [g \in Instances |-> NoRecord]
    /\ requests = [g \in Instances |-> NoRequest]
    /\ now = 0
    /\ ClsIdle
    /\ DistIdle

\* mutant of GenerateInstanceCall: the state is one attribute that every
\* instance reads and writes
GenerateInstanceCall_SharedState(g, vehicle_data, index) ==
    /\ requests[g].calls < MaxGenCalls
    /\ LET shared == CHOOSE h \in Instances : TRUE
           r == GenerateInstance(generators[shared].state, vehicle_data, index, now)
       IN  /\ generators' = [h \in Instances |->
                                [generators[h] EXCEPT !.state = r.state]]
           /\ produced' = [produced EXCEPT ![g] = r.record]
    /\ requests' = [requests EXCEPT ![g] =
                      [calls |-> @.calls + 1, vehicle_data |-> vehicle_data,
                       index |-> index, day |-> now]]
    /\ UNCHANGED <<now, clsVars, distVars>>

\* generators[g].generate_instance(vehicle_data, index)
GenerateInstanceCall(g, vehicle_data, index) ==
    /\ requests[g].calls < MaxGenCalls
    /\ LET r == GenerateInstance(generators[g].state, vehicle_data, index, now)
       IN  /\ generators' = [generators EXCEPT ![g].state = r.state]
           /\ produced' = [produced EXCEPT ![g] = r.record]
    /\ requests' = [requests EXCEPT ![g] =
                      [calls |-> @.calls + 1, vehicle_data |-> vehicle_data,
                       index |-> index, day |-> now]]
    /\ UNCHANGED <<now, clsVars, distVars>>

\* midnight passes
Tick ==
    /\ now < MaxDay
    /\ now' = now + 1
    /\ UNCHANGED <<generators, produced, requests, clsVars, distVars>>

NextGen ==
    \/ \E g \in Instances, vehicle_data \in VehicleData, index \in 0..MaxIndex :
        GenerateInstanceCall(g, vehicle_data, index)
    \/ Tick

SpecGen == InitGen /\ [][NextGen]_vars

----------------------------------------------------------------------------
(* The loop of generate_all_vins: a generator is asked for the indices     *)
(* 0, 1, 2, ... of one vehicle in order.  Beside it, a fresh generator may *)
(* be asked for a later index at once, as a lookup by (seed, index) would. *)

\* mutant of BatchCall: the state is one attribute that every instance
\* reads and writes
BatchCall_SharedState(g, vehicle_data, index) ==
    /\ requests[g].calls < MaxBatch
    /\ requests[g].calls > 0 =>
          vehicle_data = requests[g].vehicle_data /\ index = requests[g].calls
    /\ LET shared == CHOOSE h \in Instances : TRUE
           r == GenerateInstance(generators[shared].state, vehicle_data, index, now)
       IN  /\ generators' = [h \in Instances |->
                                [generators[h] EXCEPT !.state = r.state]]
           /\ produced' = [produced EXCEPT ![g] = r.record]
    /\ requests' = [requests EXCEPT ![g] =
                      [calls |-> @.calls + 1, vehicle_data |-> vehicle_data,
                       index |-> index, day |-> now]]
    /\ UNCHANGED <<now, clsVars, distVars>>

\* generator.generate_instance(vehicle, i) on the generator of one vehicle.
\* In the loop `for i in range(vin_count)` the index of every call but the
\* first is the number of calls made so far; the first call on a fresh
\* generator is index 0 in the loop, and a later index when an instance is
\* asked for on its own.
BatchCall(g, vehicle_data, index) ==
    /\ requests[g].calls < MaxBatch
    /\ requests[g].calls > 0 =>
          vehicle_data = requests[g].vehicle_data /\ index = requests[g].calls
    /\ LET r == GenerateInstance(generators[g].state, vehicle_data, index, now)
       IN  /\ generators' = [generators EXCEPT ![g].state = r.state]
           /\ produced' = [produced EXCEPT ![g] = r.record]
    /\ requests' = [requests EXCEPT ![g] =
                      [calls |-> @.calls + 1, vehicle_data |-> vehicle_data,
                       index |-> index, day |-> now]]
    /\ UNCHANGED <<now, clsVars, distVars>>

NextSeq ==
    \/ \E g \in Instances, vehicle_data \in VehicleData, index \in 0..MaxIndex :
        BatchCall(g, vehicle_data, index)
    \/ Tick

SpecSeq == InitGen /\ [][NextSeq]_vars

----------------------------------------------------------------------------
(* The generator's methods called directly, on generator "a": the two VIN  *)
(* formats for manufacturers of any length and indices up to the end of    *)
(* the six-digit serials; and draws alone, for seeds of any sign and size.  *)

\* seeds VINGenerator may be given: any integer, here -65536, -1, 0, 1,
\* 2^32 - 1, 2^32 and values between, by their limbs (hi may leave 0..65535)
AnySeeds ==
    { State32(hi, lo) : hi \in {-1, 0, 1, 65535, 65536}, lo \in {0, 1, 40503, 65535} }

mEmpty == <<>>
mF == <<"f">>
AnyManufacturers == {mEmpty, mF, mFord}

\* years of the short and of the long VIN format
PreYears == {1908, 1965, 1980}
PostYears == {1981, 2009, 2010, 2011, 2025}

\* the last index with a six-digit serial, 899999, and the index after it
LastSerialIndex == 899999
AnyIndexes == {0, MaxIndex, LastSerialIndex, LastSerialIndex + 1}

\* generator "a" constructed with any seed, no method called
InitVin ==
    /\ generators \in { [g \in Instances |->
                            NewGenerator(IF g = "a" THEN seed ELSE State32(0, 0))] :
                          seed \in AnySeeds }
    /\ produced = [g \in Instances |-> NoRecord]
    /\ requests = [g \in Instances |-> NoRequest]
    /\ now = 0
    /\ ClsIdle
    /\ DistIdle

\* generators[g].generate_pre_1981_vin(manufacturer, year, index)
Pre1981VinCall(g, manufacturer, year, index) ==
    /\ requests[g].calls < MaxGenCalls
    /\ LET r == GeneratePre1981Vin(generators[g].state, manufacturer, year, index)
       IN  /\ generators' = [generators EXCEPT ![g].state = r.state]
           /\ produced' = [produced EXCEPT ![g] = [vin |-> r.vin]]
    /\ requests' = [requests EXCEPT ![g] =
                      [calls |-> @.calls + 1, method |-> "generate_pre_1981_vin",
                       manufacturer |-> manufacturer, year |-> year,
                       index |-> index, before |-> generators[g].state]]
    /\ UNCHANGED <<now, clsVars, distVars>>

\* generators[g].generate_post_1981_vin(manufacturer, year, index)
Post1981VinCall(g, manufacturer, year, index) ==
    /\ requests[g].calls < MaxGenCalls
    /\ LET r == GeneratePost1981Vin(generators[g].state, manufacturer, year, index)
       IN  /\ generators' = [generators EXCEPT ![g].state = r.state]
           /\ produced' = [produced EXCEPT ![g] = [vin |-> r.vin]]
    /\ requests' = [requests EXCEPT ![g] =
                      [calls |-> @.calls + 1, method |-> "generate_post_1981_vin",
                       manufacturer |-> manufacturer, year |-> year,
                       index |-> index, before |-> generators[g].state]]
    /\ UNCHANGED <<now, clsVars, distVars>>

NextVin ==
    \/ \E manufacturer \in AnyManufacturers, year \in PreYears, index \in AnyIndexes :
        Pre1981VinCall("a", manufacturer, year, index)
    \/ \E manufacturer \in AnyManufacturers, year \in PostYears, index \in AnyIndexes :
        Post1981VinCall("a", manufacturer, year, index)

SpecVin == InitVin /\ [][NextVin]_vars

\* generators[g]._seeded_random()
SeededRandomCall(g) ==
    /\ requests[g].calls < MaxDraws
    /\ LET r == SeededRandom(generators[g].state)
       IN  /\ generators' = [generators EXCEPT ![g].state = r.state]
           /\ produced' = [produced EXCEPT ![g] = [draw |-> r.value]]
    /\ requests' = [requests EXCEPT ![g] =
                      [calls |-> @.calls + 1, method |-> "_seeded_random",
                       before |-> generators[g].state]]
    /\ UNCHANGED <<now, clsVars, distVars>>

\* draws alone, on either generator
NextDraw == \E g \in Instances : SeededRandomCall(g)

SpecDraw == InitVin /\ [][NextDraw]_vars

\* vehicles of any year: before the calendar, of both VIN formats, and of a
\* model year that lies ahead of 2025
AnyYears == {-5, 1965, 1981, 2030}
AnyVehicles ==
    { [vehicle_id |-> "any-vehicle", manufacturer |-> mFord, model |-> "Mustang",
       year |-> year, body_class |-> "Coupe"] : year \in AnyYears }

\* generators[g].generate_instance(vehicle_data, index), for a generator of
\* any seed; `before` keeps the state the call started from (history)
AnyInstanceCall(g, vehicle_data, index) ==
    /\ requests[g].calls < MaxGenCalls
    /\ LET r == GenerateInstance(generators[g].state, vehicle_data, index, now)
       IN  /\ generators' = [generators EXCEPT ![g].state = r.state]
           /\ produced' = [produced EXCEPT ![g] = r.record]
    /\ requests' = [requests EXCEPT ![g] =
                      [calls |-> @.calls + 1, method |-> "generate_instance",
                       vehicle_data |-> vehicle_data, index |-> index,
                       day |-> now, before |-> generators[g].state]]
    /\ UNCHANGED <<now, clsVars, distVars>>

NextAny ==
    \E vehicle_data \in AnyVehicles, index \in AnyIndexes :
        AnyInstanceCall("a", vehicle_data, index)

SpecAny == InitVin /\ [][NextAny]_vars

----------------------------------------------------------------------------
(* generate_vin(manufacturer, year) of generate_vins_for_vehicles.py: the  *)
(* VIN is drawn with the random module, not with a seeded VINGenerator     *)

\* wmi_map, in the order of the source
wmi_map ==
    << <<<<"F","o","r","d">>, <<"1","F","A">>>>,
       <<<<"L","i","n","c","o","l","n">>, <<"1","L","N">>>>,
       <<<<"M","e","r","c","u","r","y">>, <<"1","M","E">>>>,
       <<<<"C","h","e","v","r","o","l","e","t">>, <<"1","G","C">>>>,
       <<<<"B","u","i","c","k">>, <<"1","G","4">>>>,
       <<<<"C","a","d","i","l","l","a","c">>, <<"1","G","Y">>>>,
       <<<<"P","o","n","t","i","a","c">>, <<"1","G","2">>>>,
       <<<<"O","l","d","s","m","o","b","i","l","e">>, <<"1","G","3">>>>,
       <<<<"G","M","C">>, <<"1","G","T">>>>,
       <<<<"D","o","d","g","e">>, <<"1","B","3">>>>,
       <<<<"C","h","r","y","s","l","e","r">>, <<"1","C","3">>>>,
       <<<<"P","l","y","m","o","u","t","h">>, <<"1","P","3">>>>,
       <<<<"J","e","e","p">>, <<"1","J","4">>>>,
       <<<<"R","a","m">>, <<"1","D","7">>>>,
       <<<<"T","e","s","l","a">>, <<"5","Y","J">>>>,
       <<<<"R","i","v","i","a","n">>, <<"7","J","R">>>> >>

\* wmi_map.get(manufacturer, '1XX')
WmiGet(manufacturer) ==
    IF \E n \in 1..Len(wmi_map) : wmi_map[n][1] = manufacturer
    THEN wmi_map[CHOOSE n \in 1..Len(wmi_map) : wmi_map[n][1] = manufacturer][2]
    ELSE <<"1","X","X">>

\* the values of year_codes for its keys 1950, 1951, ..., 2025
year_codes ==
    << "A", "B", "C", "D", "E", "F", "G", "H", "J", "K",
       "L", "M", "N", "P", "R", "S", "T", "V", "W", "X",
       "Y", "1", "2", "3", "4", "5", "6", "7", "8", "9",
       "A", "B", "C", "D", "E", "F", "G", "H", "J", "K",
       "L", "M", "N", "P", "R", "S", "T", "V", "W", "X",
       "Y", "1", "2", "3", "4", "5", "6", "7", "8", "9",
       "A", "B", "C", "D", "E", "F", "G", "H", "J", "K",
       "L", "M", "N", "P", "R", "S" >>

FirstCodedYear == 1950
LastCodedYear == 2025

\* year_codes.get(year, 'X')
YearCodeGet(year) ==
    IF year \in FirstCodedYear..LastCodedYear
    THEN year_codes[year - FirstCodedYear + 1]
    ELSE "X"

\* generate_vin, given what the random module draws: the six characters of
\* vds, the check digit, the plant letter and the sequential number
RandomVin(manufacturer, year, vds, check, plant, sequential) ==
    WmiGet(manufacturer) \o vds \o Str(check) \o <<YearCodeGet(year)>>
        \o <<plant>> \o Str(sequential)

mTesla == <<"T","e","s","l","a">>
mToyota == <<"T","o","y","o","t","a">>
mFordUpper == <<"F","O","R","D">>
UnseededManufacturers == {mFord, mTesla, mToyota, mFordUpper}
UnseededYears == {1949, 1950, 1969, 1971, 1999, 2025, 2026}

\* draws of random.choices(alphabet, k=6), random.randint(0, 9),
\* random.choice(letters) and random.randint(100000, 999999)
VdsDraws == [1..6 -> {"A", "9"}]
CheckDraws == {0, 9}
PlantDraws == {"A", "Z"}
SequentialDraws == {100000, 999999}

\* no call of generate_vin made
InitUnseeded ==
    /\ generators = <<>>
    /\ produced = NoRecord
    /\ requests = NoRequest
    /\ now = 0
    /\ ClsIdle
    /\ DistIdle

\* vin = generate_vin(manufacturer, year)
RandomVinCall(manufacturer, year) ==
    /\ requests.calls < MaxGenCalls
    /\ \E vds \in VdsDraws, check \in CheckDraws, plant \in PlantDraws,
          sequential \in SequentialDraws :
          produced' = [vin |-> RandomVin(manufacturer, year, vds, check, plant,
                                         sequential),
                       plant |-> plant]
    /\ requests' = [calls |-> requests.calls + 1, manufacturer |-> manufacturer,
                    year |-> year]
    /\ UNCHANGED <<generators, now, clsVars, distVars>>

NextUnseeded ==
    \E manufacturer \in UnseededManufacturers, year \in UnseededYears :
        RandomVinCall(manufacturer, year)

SpecUnseeded == InitUnseeded /\ [][NextUnseeded]_vars

----------------------------------------------------------------------------
(* generate_all_vins(distribution), call by call, and load_vin_data, which *)
(* stores the records of the batch under their VINs.  `requests` is the    *)
(* frame of generate_all_vins, `generators` the generator of the vehicle   *)
(* at hand and `produced` the list all_vins.                               *)

\* vehicles of the batch; vehicle_id is a string that hash_string reads
bMustang81 ==
    [vehicle_id |-> <<"f","-","1">>, manufacturer |-> mFord, model |-> "Mustang",
     year |-> 1981, body_class |-> "Coupe"]
bFairmont81 ==
    [vehicle_id |-> <<"f","-","1","1">>, manufacturer |-> mFord, model |-> "Fairmont",
     year |-> 1981, body_class |-> "Sedan"]
bMustang65 ==
    [vehicle_id |-> <<"f","f","-","1">>, manufacturer |-> mFord, model |-> "Mustang",
     year |-> 1965, body_class |-> "Coupe"]
BatchVehicles == {bMustang81, bFairmont81, bMustang65}

\* distributions: entries {'vehicle': ..., 'vin_count': ...} of distinct
\* vehicles in any order
Distributions ==
    UNION { { d \in [1..n -> [vehicle : BatchVehicles, vin_count : 0..MaxBatch]] :
                \A i, j \in 1..n : i # j => d[i].vehicle # d[j].vehicle } :
            n \in 0..MaxItems }

\* generate_all_vins has been called: all_vins = []
InitBatch ==
    /\ generators = <<>>
    /\ produced = <<>>
    /\ requests \in { [pc |-> "vehicles", distribution |-> d, idx |-> 0, i |-> 0,
                        days |-> <<>>, stored |-> <<>>] : d \in Distributions }
    /\ now = 0
    /\ ClsIdle
    /\ DistIdle

\* mutant of NextVehicle: one generator, seeded from the first vehicle,
\* serves the whole batch
NextVehicle_OneGenerator ==
    /\ requests.pc = "vehicles"
    /\ requests.idx < Len(requests.distribution)
    /\ LET vehicle == requests.distribution[requests.idx + 1].vehicle
           seed == HashString(vehicle.vehicle_id)
       IN  generators' = IF requests.idx = 0 THEN NewGenerator(seed) ELSE generators
    /\ requests' = [requests EXCEPT !.pc = "instances", !.i = 0]
    /\ UNCHANGED <<produced, now, clsVars, distVars>>

\* for idx, item in enumerate(distribution): the generator of the vehicle
NextVehicle ==
    /\ requests.pc = "vehicles"
    /\ requests.idx < Len(requests.distribution)
    /\ LET vehicle == requests.distribution[requests.idx + 1].vehicle
           seed == HashString(vehicle.vehicle_id)
       IN  generators' = NewGenerator(seed)
    /\ requests' = [requests EXCEPT !.pc = "instances", !.i = 0]
    /\ UNCHANGED <<produced, now, clsVars, distVars>>

\* for i in range(vin_count): all_vins.append(generate_instance(vehicle, i));
\* `days` keeps the day of each call (history)
NextInstance ==
    /\ requests.pc = "instances"
    /\ requests.i < requests.distribution[requests.idx + 1].vin_count
    /\ LET vehicle == requests.distribution[requests.idx + 1].vehicle
           r == GenerateInstance(generators.state, vehicle, requests.i, now)
       IN  /\ generators' = [generators EXCEPT !.state = r.state]
           /\ produced' = Append(produced, r.record)
    /\ requests' = [requests EXCEPT !.i = @ + 1, !.days = Append(@, now)]
    /\ UNCHANGED <<now, clsVars, distVars>>

\* the inner loop is exhausted: on to the next entry
VehicleDone ==
    /\ requests.pc = "instances"
    /\ requests.i = requests.distribution[requests.idx + 1].vin_count
    /\ requests' = [requests EXCEPT !.pc = "vehicles", !.idx = @ + 1]
    /\ UNCHANGED <<generators, produced, now, clsVars, distVars>>

\* return all_vins
BatchReturn ==
    /\ requests.pc = "vehicles"
    /\ requests.idx = Len(requests.distribution)
    /\ requests' = [requests EXCEPT !.pc = "returned"]
    /\ UNCHANGED <<generators, produced, now, clsVars, distVars>>

\* the index after `bulk` has taken the actions in order: one document per
\* _id, the latest action of an _id replacing what was stored under it
RECURSIVE BulkIndex(_, _)
BulkIndex(vins, n) ==
    IF n = 0 THEN <<>>
    ELSE LET earlier == BulkIndex(vins, n - 1)
             kept == SelectSeq(earlier, LAMBDA doc : doc._id # vins[n].vin)
         IN  Append(kept, [_id |-> vins[n].vin, _source |-> vins[n]])

\* load_vin_data on the saved batch: every record indexed under its vin
LoadVinData ==
    /\ requests.pc = "returned"
    /\ requests' = [requests EXCEPT !.pc = "loaded",
                                    !.stored = BulkIndex(produced, Len(produced))]
    /\ UNCHANGED <<generators, produced, now, clsVars, distVars>>

NextBatch ==
    \/ NextVehicle
    \/ NextInstance
    \/ VehicleDone
    \/ BatchReturn
    \/ LoadVinData
    \/ Tick

SpecBatch == InitBatch /\ [][NextBatch]_vars

----------------------------------------------------------------------------
(* generate_all_vins, the seeding of one vehicle's generator from its      *)
(* vehicle_id                                                              *)

\* vehicle identifiers: every string of up to MaxIdLength characters over
\* a letter, a digit and the hyphen
IdCharacters == {"f", "-", "1"}
VehicleIds == UNION { [1..n -> IdCharacters] : n \in 0..MaxIdLength }

\* a vehicle is at hand, its generator not yet constructed
InitHash ==
    /\ generators = <<>>
    /\ produced = <<>>
    /\ requests \in { [vehicle_id |-> id] : id \in VehicleIds }
    /\ now = 0
    /\ ClsIdle
    /\ DistIdle

\* seed = VINGenerator.hash_string(vehicle['vehicle_id']);
\* generator = VINGenerator(seed)
SeedGeneratorCall ==
    /\ DOMAIN generators = {}
    /\ generators' = [g \in {"a"} |-> NewGenerator(HashString(requests.vehicle_id))]
    /\ UNCHANGED <<produced, requests, now, clsVars, distVars>>

NextHash == SeedGeneratorCall

SpecHash == InitHash /\ [][NextHash]_vars

----------------------------------------------------------------------------
(* _fallback_classification called on its own, for model names that carry  *)
(* keywords of several classes                                             *)

dTruckVan == <<"T","r","u","c","k"," ","V","a","n">>
dSportWagon == <<"S","p","o","r","t"," ","W","a","g","o","n">>
dCaravanGT == <<"C","a","r","a","v","a","n"," ","G","T">>
dEstate == <<"E","S","T","A","T","E">>
dVoyager == <<"V","o","y","a","g","e","r">>
dRT == <<"C","o","r","o","n","e","t"," ","R","/","T">>
dSS350 == <<"S","S"," ","3","5","0">>
dRoadster == <<"R","o","a","d","s","t","e","r">>
dVanguard == <<"V","a","n","g","u","a","r","d">>
FallbackModels ==
    {dF150, dThing, dTRacer, dGTMustang, dTruckVan, dSportWagon, dCaravanGT,
     dEstate, dVoyager, dRT, dSS350, dRoadster, dVanguard}

\* the arguments are chosen, the call has not been made
InitFallback ==
    /\ files = [patterns_file |-> FileMissing, overrides_file |-> FileMissing,
                taxonomy_file |-> FileMissing]
    /\ patterns = Unset
    /\ overrides = Unset
    /\ taxonomy = Unset
    /\ compiled_patterns = Unset
    /\ stats = Unset
    /\ phase = "helper"
    /\ lastCall \in { [manufacturer |-> manufacturer, model |-> model, year |-> year] :
                         manufacturer \in Manufacturers, model \in FallbackModels,
                         year \in Years }
    /\ lastResult = NoOutcome
    /\ repeated = FALSE
    /\ workers = NoWorkers
    /\ job = NoJob
    /\ GenIdle
    /\ DistIdle

\* self._fallback_classification(manufacturer, model, year)
FallbackCall ==
    /\ phase = "helper"
    /\ lastResult = NoOutcome
    /\ lastResult' = Return(FallbackClassification(lastCall.manufacturer,
                                                   lastCall.model, lastCall.year))
    /\ UNCHANGED <<patterns, overrides, taxonomy, compiled_patterns, stats,
                   lastCall, repeated, files, phase, workers, job>>
    /\ UNCHANGED <<genVars, distVars>>

NextFallback == FallbackCall

SpecFallback == InitFallback /\ [][NextFallback]_vars

----------------------------------------------------------------------------
(* One classifier shared by two threads, each making one classify call.    *)
(* self.stats[k] += 1 is a read of the counter followed by a write of the  *)
(* value read plus one; a thread switch may fall between the two, and      *)
(* between the membership test, the store of 0 and the increment of        *)
(* _update_body_class_stats.                                               *)

Workers == {"w1", "w2"}

\* a thread that has not called classify
IdleWorker == [pc |-> "idle"]

\* the catalogs of the shared classifier
SharedFiles ==
    [patterns_file |->
        FileJson(Dict(<< <<"patterns", pdA>>, <<"manufacturer_defaults", mdFord>> >>)),
     overrides_file |-> FileJson(Dict(<< <<"overrides", <<O1, O2>> >> >>)),
     taxonomy_file |-> FileMissing]

\* the classifier is built, no thread has called it
InitShared ==
    /\ files = SharedFiles
    /\ LET self == Construct(files)
       IN  /\ patterns = self.patterns
           /\ overrides = self.overrides
           /\ taxonomy = self.taxonomy
           /\ compiled_patterns = self.compiled_patterns
           /\ stats = self.stats
    /\ phase = "shared"
    /\ lastCall = NoCall
    /\ lastResult = NoOutcome
    /\ repeated = FALSE
    /\ workers = [w \in Workers |-> IdleWorker]
    /\ job = NoJob
    /\ GenIdle
    /\ DistIdle

\* what a step of thread w leaves alone when it writes no counter
SharedFrame ==
    /\ UNCHANGED <<patterns, overrides, taxonomy, compiled_patterns, lastCall,
                   lastResult, repeated, files, phase, job>>
    /\ UNCHANGED <<genVars, distVars>>

\* thread w enters classify(manufacturer, model, year); `overlapped` tells
\* whether another thread is inside classify at that moment (history)
CallBegin(w, manufacturer, model, year) ==
    /\ phase = "shared"
    /\ workers[w].pc = "idle"
    /\ workers' = [workers EXCEPT ![w] =
          [pc |-> "read_total", manufacturer |-> manufacturer, model |-> model,
           year |-> year,
           overlapped |-> \E v \in Workers \ {w} :
                             workers[v].pc \notin {"idle", "done"}]]
    /\ UNCHANGED stats
    /\ SharedFrame

\* self.stats['total'] += 1, the read
ReadTotal(w) ==
    /\ workers[w].pc = "read_total"
    /\ workers' = [workers EXCEPT ![w] =
          [pc |-> "write_total", manufacturer |-> @.manufacturer, model |-> @.model,
           year |-> @.year, overlapped |-> @.overlapped, held |-> stats.total]]
    /\ UNCHANGED stats
    /\ SharedFrame

\* mutant of WriteTotal: the value read is stored back as it was
WriteTotal_NoIncrement(w) ==
    /\ workers[w].pc = "write_total"
    /\ stats' = [stats EXCEPT !.total = workers[w].held]
    /\ workers' = [workers EXCEPT ![w] =
          [pc |-> "read_tier", manufacturer |-> @.manufacturer, model |-> @.model,
           year |-> @.year, overlapped |-> @.overlapped,
           result |-> Decide(patterns, overrides, compiled_patterns,
                             Strip(@.manufacturer), Strip(@.model), @.year)]]
    /\ SharedFrame

\* self.stats['total'] += 1, the write; then the tiers are consulted and
\* the thread stands before the increment of the deciding tier's counter
WriteTotal(w) ==
    /\ workers[w].pc = "write_total"
    /\ stats' = [stats EXCEPT !.total = workers[w].held + 1]
    /\ workers' = [workers EXCEPT ![w] =
          [pc |-> "read_tier", manufacturer |-> @.manufacturer, model |-> @.model,
           year |-> @.year, overlapped |-> @.overlapped,
           result |-> Decide(patterns, overrides, compiled_patterns,
                             Strip(@.manufacturer), Strip(@.model), @.year)]]
    /\ SharedFrame

\* self.stats[match_type] += 1, the read
ReadTier(w) ==
    /\ workers[w].pc = "read_tier"
    /\ workers' = [workers EXCEPT ![w] =
          [pc |-> "write_tier", manufacturer |-> @.manufacturer, model |-> @.model,
           year |-> @.year, overlapped |-> @.overlapped, result |-> @.result,
           held |-> stats[@.result[2]]]]
    /\ UNCHANGED stats
    /\ SharedFrame

\* self.stats[match_type] += 1, the write
WriteTier(w) ==
    /\ workers[w].pc = "write_tier"
    /\ stats' = [stats EXCEPT ![workers[w].result[2]] = workers[w].held + 1]
    /\ workers' = [workers EXCEPT ![w] =
          [pc |-> "test_class", manufacturer |-> @.manufacturer, model |-> @.model,
           year |-> @.year, overlapped |-> @.overlapped, result |-> @.result]]
    /\ SharedFrame

\* _update_body_class_stats: `if body_class not in self.stats['by_body_class']`
TestClass(w) ==
    /\ workers[w].pc = "test_class"
    /\ workers' = [workers EXCEPT ![w] =
          [pc |-> IF @.result[1] \notin DOMAIN stats.by_body_class
                  THEN "store_class" ELSE "read_class",
           manufacturer |-> @.manufacturer, model |-> @.model,
           year |-> @.year, overlapped |-> @.overlapped, result |-> @.result]]
    /\ UNCHANGED stats
    /\ SharedFrame

\* self.stats['by_body_class'][body_class] = 0
StoreClass(w) ==
    /\ workers[w].pc = "store_class"
    /\ LET body_class == workers[w].result[1]
           old == stats.by_body_class
       IN  stats' = [stats EXCEPT !.by_body_class =
                        [c \in DOMAIN old \cup {body_class} |->
                            IF c = body_class THEN 0 ELSE old[c]]]
    /\ workers' = [workers EXCEPT ![w].pc = "read_class"]
    /\ SharedFrame

\* self.stats['by_body_class'][body_class] += 1, the read
ReadClass(w) ==
    /\ workers[w].pc = "read_class"
    /\ workers' = [workers EXCEPT ![w] =
          [pc |-> "write_class", manufacturer |-> @.manufacturer, model |-> @.model,
           year |-> @.year, overlapped |-> @.overlapped, result |-> @.result,
           held |-> stats.by_body_class[@.result[1]]]]
    /\ UNCHANGED stats
    /\ SharedFrame

\* self.stats['by_body_class'][body_class] += 1, the write; classify returns
WriteClass(w) ==
    /\ workers[w].pc = "write_class"
    /\ stats' = [stats EXCEPT !.by_body_class[workers[w].result[1]] =
                                  workers[w].held + 1]
    /\ workers' = [workers EXCEPT ![w] =
          [pc |-> "done", manufacturer |-> @.manufacturer, model |-> @.model,
           year |-> @.year, overlapped |-> @.overlapped, result |-> @.result]]
    /\ SharedFrame

NextShared ==
    \E w \in Workers :
        \/ \E model \in {dMustang, dThing}, year \in {1967, 2020} :
              CallBegin(w, mFord, model, year)
        \/ ReadTotal(w)
        \/ WriteTotal(w)
        \/ ReadTier(w)
        \/ WriteTier(w)
        \/ TestClass(w)
        \/ StoreClass(w)
        \/ ReadClass(w)
        \/ WriteClass(w)

SpecShared == InitShared /\ [][NextShared]_vars

----------------------------------------------------------------------------
(* classify_and_prepare_updates(documents, classifier) of                  *)
(* update_body_classes.py, one loop iteration at a time, on a classifier   *)
(* fresh from its catalogs                                                 *)

sUnknown == <<"U","n","k","n","o","w","n">>

\* a fetched document: {'_id': ..., '_source': {...}}
Document(id, source) == [_id |-> id, _source |-> source]

docMustang ==
    Document("ford-mustang-1967",
             Dict(<< <<"manufacturer", mFord>>, <<"model", dMustang>>, <<"year", 1967>> >>))
docF150 ==
    Document("ford-f-150-2020",
             Dict(<< <<"manufacturer", mFord>>, <<"model", dF150>>, <<"year", 2020>> >>))
docNoYear ==
    Document("ford-thing", Dict(<< <<"manufacturer", mFord>>, <<"model", dThing>> >>))
docEmpty == Document("empty", EmptyDict)
DocumentPool == {docMustang, docF150, docNoYear, docEmpty}

\* what fetch_all_vehicles returns: documents of distinct _id, in any order
DocumentLists ==
    UNION { { docs \in [1..n -> DocumentPool] :
                \A i, j \in 1..n : i # j => docs[i]._id # docs[j]._id } :
            n \in 0..MaxDocuments }

\* the catalog files of the classifier handed to the function
UpdateFiles ==
    { SharedFiles,
      [patterns_file |-> FileMissing, overrides_file |-> FileMissing,
       taxonomy_file |-> FileMissing],
      [patterns_file |->
          FileJson(Dict(<< <<"patterns", pdB>>, <<"manufacturer_defaults", mdFSeries>> >>)),
       overrides_file |-> FileMissing, taxonomy_file |-> FileMissing] }

\* lines 93-97: the arguments of classify, with the defaults of source.get
DocumentArgs(doc) ==
    [manufacturer |-> Get(doc._source, "manufacturer", sUnknown),
     model |-> Get(doc._source, "model", sUnknown),
     year |-> Get(doc._source, "year", 2000)]

\* mutant of UpdateAction: the match type is written where the body class
\* belongs
UpdateAction_ClassAndTypeSwapped(doc, result, today) ==
    [_op_type |-> "update", _index |-> "autos-unified", _id |-> doc._id,
     doc |-> [body_class |-> result[2], body_class_updated_at |-> today,
              body_class_match_type |-> result[1]]]

\* lines 103-112: the update action for a document and classify's result
UpdateAction(doc, result, today) ==
    [_op_type |-> "update", _index |-> "autos-unified", _id |-> doc._id,
     doc |-> [body_class |-> result[1], body_class_updated_at |-> today,
              body_class_match_type |-> result[2]]]

\* lines 115-122: the report entry
ReportEntry(doc, args, result) ==
    [vehicle_id |-> doc._id, manufacturer |-> args.manufacturer,
     model |-> args.model, year |-> args.year, body_class |-> result[1],
     match_type |-> result[2]]

\* the function has been called with the documents and a fresh classifier;
\* update_actions and classification_report are empty.  `calls` lists the
\* classify calls made so far (history).
InitUpdate ==
    /\ files \in UpdateFiles
    /\ LET self == Construct(files)
       IN  /\ patterns = self.patterns
           /\ overrides = self.overrides
           /\ taxonomy = self.taxonomy
           /\ compiled_patterns = self.compiled_patterns
           /\ stats = self.stats
    /\ phase = "ready"
    /\ lastCall = NoCall
    /\ lastResult = NoOutcome
    /\ repeated = FALSE
    /\ workers = NoWorkers
    /\ job \in { [pc |-> "loop", documents |-> docs, i |-> 0, update_actions |-> <<>>,
                   classification_report |-> <<>>, calls |-> <<>>] :
                  docs \in DocumentLists }
    /\ GenIdle
    /\ DistIdle

\* one iteration of `for i, doc in enumerate(documents)`; an exception of
\* classify leaves the function
LoopIteration ==
    /\ job.pc = "loop"
    /\ job.i < Len(job.documents)
    /\ LET doc == job.documents[job.i + 1]
           args == DocumentArgs(doc)
           c == Classify(patterns, overrides, compiled_patterns, stats,
                         args.manufacturer, args.model, args.year)
       IN  /\ stats' = c.stats
           /\ lastCall' = args
           /\ lastResult' = c.ret
           /\ job' = IF IsRaise(c.ret)
                     THEN [job EXCEPT !.pc = "raised", !.calls = Append(@, args)]
                     ELSE [job EXCEPT
                             !.i = @ + 1,
                             !.calls = Append(@, args),
                             !.update_actions =
                                 Append(@, UpdateAction(doc, c.ret.value, now)),
                             !.classification_report =
                                 Append(@, ReportEntry(doc, args, c.ret.value))]
    /\ UNCHANGED <<patterns, overrides, taxonomy, compiled_patterns, repeated,
                   files, phase, workers>>
    /\ UNCHANGED <<genVars, distVars>>

\* return update_actions, classification_report
LoopEnd ==
    /\ job.pc = "loop"
    /\ job.i = Len(job.documents)
    /\ job' = [job EXCEPT !.pc = "returned"]
    /\ UNCHANGED <<patterns, overrides, taxonomy, compiled_patterns, stats,
                   lastCall, lastResult, repeated, files, phase, workers>>
    /\ UNCHANGED <<genVars, distVars>>

NextUpdate == LoopIteration \/ LoopEnd

SpecUpdate == InitUpdate /\ [][NextUpdate]_vars

----------------------------------------------------------------------------
(* distribute_vins_across_vehicles applied to a vehicle list and a target  *)

\* vehicle lists: instance_count is all the function reads of a vehicle,
\* vehicle_id tells the vehicles of a list apart
VehicleLists ==
    UNION { { [k \in 1..n |-> [vehicle_id |-> k, instance_count |-> counts[k]]] :
                counts \in [1..n -> 0..MaxInstanceCount] } : n \in 0..MaxVehicles }

\* the arguments are chosen, the call has not been made
InitDist ==
    /\ distVehicles \in VehicleLists
    /\ distTarget \in 0..MaxTarget
    /\ distResult = NoOutcome
    /\ ClsIdle
    /\ GenIdle

\* distribute_vins_across_vehicles(distVehicles, distTarget)
DistributeCall ==
    /\ distResult = NoOutcome
    /\ distResult' = DistributeVins(distVehicles, distTarget)
    /\ UNCHANGED <<distVehicles, distTarget, clsVars, genVars>>

NextDist == DistributeCall

SpecDist == InitDist /\ [][NextDist]_vars

\* instance counts and targets at which the doubles fall short of the exact
\* quotients (294 / 49 = 6, and 294 * (1 / 49) < 6), and others
RoundingCounts == {1, 16, 32}
RoundingTargets == {0, 20, 293, 294, 295, 343}
RoundingVehicleLists ==
    UNION { { [k \in 1..n |-> [vehicle_id |-> k, instance_count |-> counts[k]]] :
                counts \in [1..n -> RoundingCounts] } : n \in 0..MaxVehicles }

InitRounding ==
    /\ distVehicles \in RoundingVehicleLists
    /\ distTarget \in RoundingTargets
    /\ distResult = NoOutcome
    /\ ClsIdle
    /\ GenIdle

SpecRounding == InitRounding /\ [][NextDist]_vars

----------------------------------------------------------------------------
(* Vocabulary of the claims about classify, stated on the catalogs and not *)
(* through the classifier's own helpers.                                   *)

\* the latest classify call returned
Called == phase = "ready" /\ lastResult.kind = "return"

\* the latest call's arguments as classify compares them
ArgM == Strip(lastCall.manufacturer)
ArgD == Strip(lastCall.model)
ArgY == lastCall.year

\* a and b are equal ignoring letter case
EqIgnoreCase(a, b) ==
    /\ Len(a) = Len(b)
    /\ \A i \in 1..Len(a) : LowerChar(a[i]) = LowerChar(b[i])

\* sub occurs in s ignoring letter case
ContainsIgnoreCase(sub, s) ==
    \E off \in 0..(Len(s) - Len(sub)) :
        \A j \in 1..Len(sub) : LowerChar(s[off + j]) = LowerChar(sub[j])

\* the regex source src (subset: literals, '.', leading '^', trailing '$')
\* finds a match somewhere inside s, ignoring case
RegexFinds(src, s) ==
    LET anchoredStart == Len(src) > 0 /\ src[1] = "^"
        anchoredEnd == Len(src) > (IF anchoredStart THEN 1 ELSE 0)
                          /\ src[Len(src)] = "$"
        body == SubSeq(src, (IF anchoredStart THEN 2 ELSE 1),
                            (IF anchoredEnd THEN Len(src) - 1 ELSE Len(src)))
    IN  \E a \in 1..(Len(s) + 1) :
            LET b == a + Len(body) - 1
            IN  /\ b <= Len(s)
                /\ anchoredStart => a = 1
                /\ anchoredEnd => b = Len(s)
                /\ \A j \in 1..Len(body) :
                      body[j] = "." \/ EqIgnoreCase(<<body[j]>>, <<s[a + j - 1]>>)

OverrideList == IF HasKey(overrides, "overrides") THEN Item(overrides, "overrides") ELSE <<>>
PatternItems == IF HasKey(patterns, "patterns") THEN Item(patterns, "patterns").items ELSE <<>>
DefaultItems(m) ==
    IF HasKey(patterns, "manufacturer_defaults")
       /\ HasKey(Item(patterns, "manufacturer_defaults"), m)
    THEN Item(Item(patterns, "manufacturer_defaults"), m).items
    ELSE <<>>
ExactList(item) == IF HasKey(item[2], "exact_matches") THEN Item(item[2], "exact_matches") ELSE <<>>
RegexList(item) == IF HasKey(item[2], "regex_patterns") THEN Item(item[2], "regex_patterns") ELSE <<>>

\* override entry O is a rule for (m, d, y)
OverrideApplies(O, m, d, y) ==
    /\ EqIgnoreCase(Item(O, "manufacturer"), m)
    /\ EqIgnoreCase(Item(O, "model"), d)
    /\ Item(O, "year_range")[1] <= y
    /\ y <= Item(O, "year_range")[2]

\* the tiers that have a rule for the identity (m, d, y)
OverrideRule(m, d, y) ==
    \E i \in 1..Len(OverrideList) : OverrideApplies(OverrideList[i], m, d, y)
ExactRuleIn(item, d) ==
    \E k \in 1..Len(ExactList(item)) : EqIgnoreCase(ExactList(item)[k], d)
ExactRule(d) == \E i \in 1..Len(PatternItems) : ExactRuleIn(PatternItems[i], d)
RegexRuleIn(item, d) ==
    \E k \in 1..Len(RegexList(item)) : RegexFinds(RegexList(item)[k], d)
RegexRule(d) == \E i \in 1..Len(PatternItems) : RegexRuleIn(PatternItems[i], d)
DefaultRule(m, d) ==
    \E i \in 1..Len(DefaultItems(m)) : ContainsIgnoreCase(DefaultItems(m)[i][1], d)

\* the least index at which the boolean sequence holds
Least(holds) ==
    CHOOSE i \in 1..Len(holds) : holds[i] /\ \A j \in 1..(i-1) : ~holds[j]

\* the class each tier gives (m, d, y), for a tier that has a rule
OverrideClass(m, d, y) ==
    LET applies == [i \in 1..Len(OverrideList) |->
                       OverrideApplies(OverrideList[i], m, d, y)]
    IN  Item(OverrideList[Least(applies)], "body_class")
ExactClass(d) ==
    LET applies == [i \in 1..Len(PatternItems) |-> ExactRuleIn(PatternItems[i], d)]
    IN  PatternItems[Least(applies)][1]
RegexClass(d) ==
    LET applies == [i \in 1..Len(PatternItems) |-> RegexRuleIn(PatternItems[i], d)]
    IN  PatternItems[Least(applies)][1]
DefaultClass(m, d) ==
    LET items == DefaultItems(m)
        isKey == [i \in 1..Len(items) |-> items[i][1] = d]
        applies == [i \in 1..Len(items) |-> ContainsIgnoreCase(items[i][1], d)]
    IN  IF \E i \in 1..Len(items) : isKey[i]
        THEN items[Least(isKey)][2]
        ELSE items[Least(applies)][2]

----------------------------------------------------------------------------
(* Claims C1-C6: the classifier's tiers *)

\* C1 as stated: for every override entry O, every year of O's inclusive
\* range and every manufacturer and model equal to O's ignoring case,
\* classify returns O.body_class as a historical_override.
C1_EveryOverrideWins ==
    \A i \in 1..Len(OverrideList) :
        (Called /\ OverrideApplies(OverrideList[i], lastCall.manufacturer,
                                   lastCall.model, lastCall.year))
        => lastResult.value = <<Item(OverrideList[i], "body_class"),
                                "historical_override">>

\* C1 amended: whenever some override entry matches the stripped
\* manufacturer and model ignoring case and its inclusive year range holds
\* the year, classify returns the body_class of the first such entry in
\* catalog order as a historical_override (O's own class when no earlier
\* entry matches).
C1_FirstOverrideWins ==
    \A i \in 1..Len(OverrideList) :
        (Called /\ OverrideApplies(OverrideList[i], ArgM, ArgD, ArgY))
        => lastResult.value = <<OverrideClass(ArgM, ArgD, ArgY),
                                "historical_override">>

\* C1 witness: two entries with different classes match the call, at the
\* shared end of their ranges, and the earlier entry's class was returned.
C1_Witness ==
    /\ Called
    /\ \E i, j \in 1..Len(OverrideList) :
          /\ i < j
          /\ OverrideApplies(OverrideList[i], ArgM, ArgD, ArgY)
          /\ OverrideApplies(OverrideList[j], ArgM, ArgD, ArgY)
          /\ ArgY = Item(OverrideList[i], "year_range")[1]
          /\ ArgY = Item(OverrideList[j], "year_range")[2]
          /\ Item(OverrideList[i], "body_class") # Item(OverrideList[j], "body_class")
          /\ lastResult.value = <<Item(OverrideList[i], "body_class"),
                                  "historical_override">>

\* the first tier, in the fixed order, that has a rule for (m, d, y)
FirstTier(m, d, y) ==
    IF OverrideRule(m, d, y) THEN "historical_override"
    ELSE IF ExactRule(d) THEN "exact_match"
    ELSE IF RegexRule(d) THEN "regex_match"
    ELSE IF DefaultRule(m, d) THEN "manufacturer_default"
    ELSE "fallback"

TierClass(tier, m, d, y) ==
    CASE tier = "historical_override" -> OverrideClass(m, d, y)
      [] tier = "exact_match" -> ExactClass(d)
      [] tier = "regex_match" -> RegexClass(d)
      [] tier = "manufacturer_default" -> DefaultClass(m, d)
      [] OTHER -> FallbackClassification(m, d, y)

\* C2: classify returns the class and match_type of the first tier, in the
\* order override, exact, regex, manufacturer default, fallback, that has a
\* matching rule; a lower tier decides only when no higher tier has one.
C2_TierPrecedence ==
    Called =>
        LET tier == FirstTier(ArgM, ArgD, ArgY)
        IN  lastResult.value = <<TierClass(tier, ArgM, ArgD, ArgY), tier>>

\* C2 witness: an override and an exact-match rule with different classes
\* both apply and the override's class was returned.
C2_Witness ==
    /\ Called
    /\ OverrideRule(ArgM, ArgD, ArgY)
    /\ ExactRule(ArgD)
    /\ OverrideClass(ArgM, ArgD, ArgY) # ExactClass(ArgD)
    /\ lastResult.value = <<OverrideClass(ArgM, ArgD, ArgY), "historical_override">>

\* C3: every classify call increases stats['total'] by exactly one, and a
\* call with the arguments of the call before it returns the same
\* (body_class, match_type) pair.
C3_Idempotent ==
    [][ /\ stats'.total = stats.total + 1
        /\ (Called /\ lastCall' = lastCall) => lastResult' = lastResult ]_vars

\* C3 witness: the same arguments were classified twice in a row.
C3_Witness == Called /\ repeated /\ stats.total >= 2

\* the model name holds one of the pre-1930 roadster words, ignoring case
HasRoadsterWord(d) ==
    \E w \in {W_roadster, W_speedster, W_racer} : ContainsIgnoreCase(w, d)

\* C4: for year < 1930 and no override, exact, regex or manufacturer-default
\* rule matching, classify returns a fallback: 'Roadster' iff the model
\* contains roadster, speedster or racer ignoring case, else 'Touring Car'.
C4_Pre1930Fallback ==
    (/\ Called
     /\ ArgY < 1930
     /\ ~OverrideRule(ArgM, ArgD, ArgY)
     /\ ~ExactRule(ArgD)
     /\ ~RegexRule(ArgD)
     /\ ~DefaultRule(ArgM, ArgD))
    => lastResult.value =
         <<IF HasRoadsterWord(lastCall.model) THEN "Roadster" ELSE "Touring Car",
           "fallback">>

\* C4 witness: a model with 'Racer' in it, classified for 1929 with no rule
\* matching, came out as a Roadster.
C4_Witness ==
    /\ Called
    /\ lastCall.model = dTRacer
    /\ lastCall.year = 1929
    /\ ~OverrideRule(ArgM, ArgD, ArgY) /\ ~ExactRule(ArgD)
    /\ ~RegexRule(ArgD) /\ ~DefaultRule(ArgM, ArgD)
    /\ lastResult.value = <<"Roadster", "fallback">>

\* C5 as stated: with 'F-Series' -> 'Pickup' the only Ford default and no
\* override, exact or regex rule matching, classify('Ford', 'F-150', 2020)
\* returns ('Pickup', 'manufacturer_default').
C5_FSeriesMatchesF150 ==
    (/\ Called
     /\ lastCall = [manufacturer |-> mFord, model |-> dF150, year |-> 2020]
     /\ DefaultItems(mFord) = << <<kFSeries, "Pickup">> >>
     /\ ~OverrideRule(ArgM, ArgD, ArgY)
     /\ ~ExactRule(ArgD)
     /\ ~RegexRule(ArgD))
    => lastResult.value = <<"Pickup", "manufacturer_default">>

\* C6: with no override and no exact-match rule applying and some regex
\* pattern finding a match inside the model, classify returns a regex_match
\* with the class of the first body class, in catalog order, that has a
\* matching pattern.
C6_RegexTier ==
    (/\ Called
     /\ ~OverrideRule(ArgM, ArgD, ArgY)
     /\ ~ExactRule(ArgD)
     /\ RegexRule(ArgD))
    => lastResult.value = <<RegexClass(ArgD), "regex_match">>

\* C6 witness: pattern 'mustang' under 'Sports Car' is the first to match,
\* inside the model name and not at its start, though a later class matches too.
C6_Witness ==
    /\ Called
    /\ lastCall.model = dGTMustang
    /\ ~OverrideRule(ArgM, ArgD, ArgY)
    /\ ~ExactRule(ArgD)
    /\ Len(PatternItems) = 2
    /\ RegexList(PatternItems[1]) = <<rMustang>>
    /\ RegexRuleIn(PatternItems[2], ArgD)
    /\ lastResult.value = <<"Sports Car", "regex_match">>

----------------------------------------------------------------------------
(* Claims about generate_instance *)

\* both instances were built with one seed and each was asked once, for the
\* same vehicle data and the same instance index
SameSeedSameCall ==
    /\ generators["a"].seed = generators["b"].seed
    /\ requests["a"].calls = 1
    /\ requests["b"].calls = 1
    /\ requests["a"].vehicle_data = requests["b"].vehicle_data
    /\ requests["a"].index = requests["b"].index

\* a record with its last_service_date blanked
WithoutServiceDate(r) == [r EXCEPT !.last_service_date = 0]

\* C7 as stated: two generators built with the same seed and each asked
\* once for generate_instance with the same vehicle data and index return
\* records identical in every field, last_service_date included.
C7_IdenticalRecords ==
    SameSeedSameCall => produced["a"] = produced["b"]

\* C7 amended: the two records are identical in every field other than
\* last_service_date, and last_service_date lies the same number of days
\* before the day of its call in both, so the dates are identical when both
\* calls are made on the same day.
C7_IdenticalButServiceDate ==
    SameSeedSameCall =>
        /\ WithoutServiceDate(produced["a"]) = WithoutServiceDate(produced["b"])
        /\ requests["a"].day - produced["a"].last_service_date
             = requests["b"].day - produced["b"].last_service_date
        /\ (requests["a"].day = requests["b"].day
              => produced["a"].last_service_date = produced["b"].last_service_date)

\* the two calls were made on different days and the records differ in
\* last_service_date only
C7_Witness ==
    /\ SameSeedSameCall
    /\ requests["a"].day # requests["b"].day
    /\ produced["a"].last_service_date # produced["b"].last_service_date
    /\ WithoutServiceDate(produced["a"]) = WithoutServiceDate(produced["b"])

\* the layout of generate_pre_1981_vin: year digit, plant letter, 01C and
\* a six-digit serial
IsPre1981Format(vin) ==
    /\ Len(vin) = 11
    /\ vin[2] \in {"R", "F", "T", "D", "A"}
    /\ SubSeq(vin, 3, 5) = <<"0", "1", "C">>

\* the layout of generate_post_1981_vin: country 1, manufacturer code,
\* BP40E9, year code, plant F and a six-digit serial
IsPost1981Format(vin) ==
    /\ Len(vin) >= 15
    /\ vin[1] = "1"
    /\ SubSeq(vin, Len(vin) - 13, Len(vin) - 8) = <<"B", "P", "4", "0", "E", "9">>
    /\ vin[Len(vin) - 6] = "F"

\* C9: generate_instance gives the pre-1981 VIN format to every year <= 1980
\* and the post-1981 format to every year >= 1981, and to no year both or
\* neither.
C9_EraBoundary ==
    \A g \in Instances :
        requests[g].calls >= 1 =>
            LET r == produced[g]
            IN  /\ r.year <= 1980 => IsPre1981Format(r.vin) /\ ~IsPost1981Format(r.vin)
                /\ r.year >= 1981 => IsPost1981Format(r.vin) /\ ~IsPre1981Format(r.vin)

\* one generator produced a 1980 record with the short VIN, the other a
\* 1981 record with the long VIN
C9_Witness ==
    /\ requests["a"].calls >= 1
    /\ requests["b"].calls >= 1
    /\ produced["a"].year = 1980 /\ IsPre1981Format(produced["a"].vin)
    /\ produced["b"].year = 1981 /\ IsPost1981Format(produced["b"].vin)

----------------------------------------------------------------------------
(* Claim about distribute_vins_across_vehicles *)

\* C8 as stated, on the inputs for which an allocation of the stated kind
\* exists (every vehicle has instances and the target is at least five per
\* vehicle): the call returns, the allocations returned sum exactly to the
\* target and every vin_count is at least the minimum of 5.
C8_ExactTargetAboveMinimum ==
    ( /\ distResult # NoOutcome
      /\ \A k \in 1..Len(distVehicles) : distVehicles[k].instance_count >= 1
      /\ distTarget >= MinVinsPerVehicle * Len(distVehicles) )
    => /\ distResult.kind = "return"
       /\ LET distribution == distResult.value
          IN  /\ SumVinCount(distribution, Len(distribution)) = distTarget
              /\ \A k \in 1..Len(distribution) :
                    distribution[k].vin_count >= MinVinsPerVehicle

----------------------------------------------------------------------------
(* Claim about the construction of the classifier *)

\* C10 as stated: whatever the catalog files hold (missing, unparseable, a
\* wrong top-level shape, an invalid regex), construction completes, and a
\* classify call on the object returns a classification from the remaining
\* tiers.
C10_ConstructionNeverFails ==
    /\ phase # "failed"
    /\ (phase = "ready" /\ stats.total >= 1) => lastResult.kind = "return"

----------------------------------------------------------------------------
(* Claims about classify on catalogs of any content *)

TierNames ==
    {"historical_override", "exact_match", "regex_match",
     "manufacturer_default", "fallback"}

\* C11 as stated: on every classifier that was constructed, here with
\* catalogs of the right top-level shape whose entries may lack fields,
\* every classify call returns a (body_class, match_type) pair whose
\* match_type is one of the five tier names; it never raises.
C11_ClassifyNeverRaises ==
    (phase = "ready" /\ stats.total >= 1 /\ overrides.kind = "dict")
    => /\ lastResult.kind = "return"
       /\ lastResult.value[2] \in TierNames

RECURSIVE SumCounts(_, _)
\* the sum of counts[k] over the keys k
SumCounts(counts, keys) ==
    IF keys = {} THEN 0
    ELSE LET k == CHOOSE x \in keys : TRUE
         IN  counts[k] + SumCounts(counts, keys \ {k})

\* C12 as stated: after n classify calls on a freshly constructed
\* classifier stats['total'] is n, the five match-type counters sum to n and
\* the values of stats['by_body_class'] sum to n.
C12_CountersSumToTotal ==
    phase = "ready" =>
        /\ stats.historical_override + stats.exact_match + stats.regex_match
             + stats.manufacturer_default + stats.fallback = stats.total
        /\ SumCounts(stats.by_body_class, DOMAIN stats.by_body_class) = stats.total

----------------------------------------------------------------------------
(* Claims about the sequence of records of one generator *)

\* both generators were built with one seed and serve the same vehicle, and
\* the latest call of each asked for the same index
SameSeedSameIndex ==
    /\ generators["a"].seed = generators["b"].seed
    /\ requests["a"].calls >= 1
    /\ requests["b"].calls >= 1
    /\ requests["a"].vehicle_data = requests["b"].vehicle_data
    /\ requests["a"].index = requests["b"].index

\* C13 as stated: the record of index i is the same (the day of
\* last_service_date left aside) whether i is asked for by the first call
\* on a fresh generator or by the (i+1)-th call, after the indices 0..i-1,
\* on another generator with the same seed and vehicle.
C13_IndexAloneDecides ==
    (SameSeedSameIndex /\ requests["a"].calls = requests["a"].index + 1
                       /\ requests["b"].calls = 1)
    => WithoutServiceDate(produced["a"]) = WithoutServiceDate(produced["b"])

\* C13 amended: the record of index i is the same, in every field other
\* than last_service_date and in the number of days last_service_date lies
\* before its call, on two generators with the same seed and vehicle that
\* were both asked for the indices 0..i in order.
C13_SamePrefixSameRecord ==
    (SameSeedSameIndex /\ requests["a"].calls = requests["a"].index + 1
                       /\ requests["b"].calls = requests["b"].index + 1)
    => /\ WithoutServiceDate(produced["a"]) = WithoutServiceDate(produced["b"])
       /\ requests["a"].day - produced["a"].last_service_date
            = requests["b"].day - produced["b"].last_service_date

\* both generators were asked for the indices 0 and 1 in order and agree
\* on the record of index 1
C13_Witness ==
    /\ SameSeedSameIndex
    /\ requests["a"].calls = 2 /\ requests["a"].index = 1
    /\ requests["b"].calls = 2 /\ requests["b"].index = 1
    /\ WithoutServiceDate(produced["a"]) = WithoutServiceDate(produced["b"])

----------------------------------------------------------------------------
(* Claims about the order of the draws within one generate_instance call *)

RECURSIVE Draw(_, _)
\* the state after k draws from the state st
Draw(st, k) == IF k = 0 THEN st ELSE NextState(Draw(st, k - 1))

\* generator g has served exactly one call
FirstCallDone(g) == requests[g].calls = 1

\* draws the VIN takes in the call of g: one for the plant letter of the
\* short format, none for the long format
VinDraws(g) == IF produced[g].year <= 1980 THEN 1 ELSE 0

\* iterations of the option loop in the call of g, one draw each: the count
\* is read from the sixth draw after the VIN
OptionDraws(g) ==
    LET count == ScaledInt(Draw(generators[g].seed, VinDraws(g) + 6),
                           produced[g].condition_rating * 3)
    IN  IF count < Len(AllOptions) THEN count ELSE Len(AllOptions)

\* the attributes drawn up to the estimated value are read from the draws
\* in the order condition, mileage (two draws), registered state, exterior
\* color, factory options (count, then picks), estimated value
AttributesInOrder(g) ==
    LET seed == generators[g].seed
        v == VinDraws(g)
        n == OptionDraws(g)
        r == produced[g]
    IN  /\ r.condition_rating = GenerateCondition(Draw(seed, v)).condition.rating
        /\ r.mileage = GenerateMileage(Draw(seed, v + 1), r.year).mileage
        /\ r.registered_state = GenerateState(Draw(seed, v + 3)).code
        /\ r.exterior_color = GenerateColor(Draw(seed, v + 4), r.year).color
        /\ r.factory_options
             = GenerateOptions(Draw(seed, v + 5), r.condition_rating).options
        /\ r.estimated_value
             = CalculateValue(Draw(seed, v + 6 + n), r.condition_rating,
                              r.mileage, r.factory_options).value

\* the four flags are read from the four draws after the k-th
FlagsAfter(g, k) ==
    LET seed == generators[g].seed
        r == produced[g]
    IN  /\ r.mileage_verified = ~Below(Draw(seed, k + 1), 20)
        /\ r.registration_status
             = (IF ~Below(Draw(seed, k + 2), 55) THEN "Active" ELSE "Historic")
        /\ r.title_status
             = (IF ~Below(Draw(seed, k + 3), 10) THEN "Clean" ELSE "Rebuilt")
        /\ r.matching_numbers = ~Below(Draw(seed, k + 4), 40)

\* the service-date offset is read from the draw after the k-th
ServiceOffsetAfter(g, k) ==
    requests[g].day - produced[g].last_service_date
        = ScaledInt(Draw(generators[g].seed, k + 1), 180)

\* C14 as stated: after the estimated value the call draws the four flags
\* (mileage-verified, registration-status, title-status, matching-numbers)
\* and last the service-date offset.
C14_FlagsThenServiceDate ==
    \A g \in Instances :
        FirstCallDone(g) =>
            LET k == VinDraws(g) + 7 + OptionDraws(g)
            IN  /\ AttributesInOrder(g)
                /\ FlagsAfter(g, k)
                /\ ServiceOffsetAfter(g, k + 4)

\* C14 amended: after the draw of the VIN's plant letter, if any, the call
\* draws condition, mileage, registered state, exterior color, factory
\* options, estimated value, then the service-date offset, then the four
\* flags in the order mileage-verified, registration-status, title-status,
\* matching-numbers; nothing else is drawn.
C14_ServiceDateThenFlags ==
    \A g \in Instances :
        FirstCallDone(g) =>
            LET k == VinDraws(g) + 7 + OptionDraws(g)
            IN  /\ AttributesInOrder(g)
                /\ ServiceOffsetAfter(g, k)
                /\ FlagsAfter(g, k + 1)
                /\ generators[g].state = Draw(generators[g].seed, k + 5)

\* a call for a year of the short VIN format that went through the option
\* loop and whose service-date offset is not what the draw after the flags
\* gives
C14_Witness ==
    \E g \in Instances :
        /\ FirstCallDone(g)
        /\ VinDraws(g) = 1
        /\ OptionDraws(g) >= 1
        /\ ~ServiceOffsetAfter(g, VinDraws(g) + 7 + OptionDraws(g) + 4)

----------------------------------------------------------------------------
(* Claim about the manufacturer-default tier *)

\* the manufacturers catalogued in the "manufacturer_defaults" section
DefaultManufacturers ==
    IF HasKey(patterns, "manufacturer_defaults")
    THEN Item(patterns, "manufacturer_defaults").items
    ELSE <<>>

\* no tier above the manufacturer defaults has a rule for the latest call
DefaultTierReached ==
    /\ Called
    /\ ~OverrideRule(ArgM, ArgD, ArgY)
    /\ ~ExactRule(ArgD)
    /\ ~RegexRule(ArgD)

----------------------------------------------------------------------------
(* Claims about the two VIN formats *)

\* the latest call of generator g was generate_post_1981_vin, for a year
\* after 1980
PostCalled(g) ==
    /\ requests[g].calls >= 1
    /\ requests[g].method = "generate_post_1981_vin"
    /\ requests[g].year > 1980

\* the year-code character of the long VIN that generator g returned: it
\* follows the country digit, the manufacturer code of at most two
\* characters and the six characters BP40E9
YearCodeOf(g) ==
    LET code_length == IF Len(requests[g].manufacturer) < 2
                       THEN Len(requests[g].manufacturer) ELSE 2
    IN  produced[g].vin[1 + code_length + 6 + 1]

\* C16 as stated: the year code of a post-1981 VIN is the symbol at
\* index (year - 1980) mod 31 of an alphabet of 31 symbols.
C16_Mod31 ==
    \A g \in Instances :
        PostCalled(g) =>
            /\ Len(YearCodes) = 31
            /\ YearCodeOf(g)
                 = YearCodes[((requests[g].year - 1980) % 31) + 1]

\* C16 amended: the year code of a post-1981 VIN is the symbol at index
\* (year - 1980) mod 30 of the 30-symbol alphabet
\* ABCDEFGHJKLMNPRSTVWXY123456789, so 1981 has B and 2010 has A again.
C16_Mod30 ==
    \A g \in Instances :
        PostCalled(g) =>
            /\ Len(YearCodes) = 30
            /\ YearCodeOf(g)
                 = YearCodes[((requests[g].year - 1980) % 30) + 1]
            /\ requests[g].year = 1981 => YearCodeOf(g) = "B"
            /\ requests[g].year = 2009 => YearCodeOf(g) = "9"
            /\ requests[g].year = 2010 => YearCodeOf(g) = "A"

\* a year thirty or more after 1980 whose code is back in the alphabet's
\* first symbols
C16_Witness ==
    \E g \in Instances :
        /\ PostCalled(g)
        /\ requests[g].year = 2011
        /\ YearCodeOf(g) = "B"

\* C17 as stated: for every year after 1980, every manufacturer name of
\* any length and every index in 0..899999 the post-1981 VIN has exactly 17
\* characters.
C17_SeventeenCharacters ==
    \A g \in Instances :
        (PostCalled(g) /\ requests[g].index <= LastSerialIndex)
        => Len(produced[g].vin) = 17

\* the latest call of generator g was generate_pre_1981_vin, for a year up
\* to 1980
PreCalled(g) ==
    /\ requests[g].calls >= 1
    /\ requests[g].method = "generate_pre_1981_vin"
    /\ requests[g].year <= 1980

\* the decimal digits of n, for 0 <= n < 10^width
DecimalOf(n, width) ==
    [k \in 1..width |-> Digits[((n \div (10 ^ (width - k))) % 10) + 1]]

\* the VIN generator g returned is year digit, plant letter, 01C and the
\* decimal value 100000 + index written with `width` digits; the plant is
\* the letter the one draw of the call selects
PreVinWithSerial(g, width) ==
    LET vin == produced[g].vin
        drawn == NextState(requests[g].before)
    IN  /\ Len(vin) = 5 + width
        /\ vin[1] = Digits[(requests[g].year % 10) + 1]
        /\ vin[2] \in {"R", "F", "T", "D", "A"}
        /\ vin[2] = <<"R", "F", "T", "D", "A">>[ScaledInt(drawn, 5) + 1]
        /\ SubSeq(vin, 3, 5) = <<"0", "1", "C">>
        /\ SubSeq(vin, 6, Len(vin)) = DecimalOf(100000 + requests[g].index, width)
        /\ generators[g].state = drawn

\* C18 as stated: for every year up to 1980 and every index i >= 0 the
\* pre-1981 VIN is the year's last digit, one plant letter chosen by
\* exactly one draw, 01C and the value 100000 + i in exactly 6 digits.
C18_SixDigitSerial ==
    \A g \in Instances : PreCalled(g) => PreVinWithSerial(g, 6)

\* C18 amended: the same layout, with 100000 + i written in 6 digits for
\* i <= 899999 and in 7 digits from i = 900000 on (up to 9899999).
C18_SerialOfTheIndex ==
    \A g \in Instances :
        PreCalled(g) =>
            PreVinWithSerial(g, IF requests[g].index <= LastSerialIndex
                                THEN 6 ELSE 7)

\* the short VIN of the first index past the six-digit serials has twelve
\* characters
C18_Witness ==
    \E g \in Instances :
        /\ PreCalled(g)
        /\ requests[g].index = LastSerialIndex + 1
        /\ Len(produced[g].vin) = 12

\* the latest call of generator g was _seeded_random
DrawCalled(g) ==
    /\ requests[g].calls >= 1
    /\ requests[g].method = "_seeded_random"

\* the four bytes, least significant first, of an integer given by its
\* limbs and reduced modulo 2^32
Bytes(st) ==
    LET hi == (st.hi + st.lo \div Limb) % Limb
        lo == st.lo % Limb
    IN  <<lo % 256, lo \div 256, hi % 256, hi \div 256>>

\* 1664525 = 0x0019660D and 1013904223 = 0x3C6EF35F, least significant
\* byte first
MultiplierBytes == <<13, 102, 25, 0>>
IncrementBytes == <<95, 243, 110, 60>>

\* (state * 1664525 + 1013904223) mod 2^32, by long multiplication in
\* base 256
LcgStep(st) ==
    LET s == Bytes(st)
        m == MultiplierBytes
        c1 == s[1] * m[1] + IncrementBytes[1]
        c2 == s[2] * m[1] + s[1] * m[2] + IncrementBytes[2] + c1 \div 256
        c3 == s[3] * m[1] + s[2] * m[2] + s[1] * m[3] + IncrementBytes[3]
                + c2 \div 256
        c4 == s[4] * m[1] + s[3] * m[2] + s[2] * m[3] + s[1] * m[4]
                + IncrementBytes[4] + c3 \div 256
    IN  State32((c4 % 256) * 256 + (c3 % 256), (c2 % 256) * 256 + (c1 % 256))

\* 0 <= state < 2^32
In32Bits(st) == st.hi \in 0..(Limb - 1) /\ st.lo \in 0..(Limb - 1)

\* C19: every call of _seeded_random replaces state by
\* (state * 1664525 + 1013904223) mod 2^32, so after the first draw
\* 0 <= state < 2^32 for any integer seed, and the draw state / 2^32 lies in
\* [0, 1).
C19_StateStaysIn32Bits ==
    \A g \in Instances :
        DrawCalled(g) =>
            /\ generators[g].state = LcgStep(requests[g].before)
            /\ In32Bits(generators[g].state)
            /\ produced[g].draw.numerator = generators[g].state
            /\ produced[g].draw.denominator = <<2, 32>>

\* a generator seeded outside 0..2^32-1 has drawn more than once
C19_Witness ==
    \E g \in Instances :
        /\ DrawCalled(g)
        /\ requests[g].calls >= 2
        /\ ~In32Bits(generators[g].seed)
        /\ In32Bits(generators[g].state)

\* the generator of the vehicle at hand has been seeded
Seeded == DOMAIN generators = {"a"}

\* (h * 31 + code) mod 2^32 for h in 0..2^32-1 and 0 <= code < 2^16, by
\* long multiplication in base 256
Times31Plus(h, code) ==
    LET s == Bytes(h)
        c1 == s[1] * 31 + code
        c2 == s[2] * 31 + c1 \div 256
        c3 == s[3] * 31 + c2 \div 256
        c4 == s[4] * 31 + c3 \div 256
    IN  State32((c4 % 256) * 256 + (c3 % 256), (c2 % 256) * 256 + (c1 % 256))

\* the fold h := (h * 31 + code(c)) mod 2^32 over the first n characters
\* of s, from h = 0
RECURSIVE Fold31(_, _)
Fold31(s, n) ==
    IF n = 0 THEN State32(0, 0)
    ELSE Times31Plus(Fold31(s, n - 1), Ord(s[n]))

\* C20: hash_string(s) is the fold h := (h * 31 + code(c)) mod 2^32 over
\* the characters of s from h = 0; the result is an integer in 0..2^32-1
\* and hash_string of the empty string is 0.
C20_HashIsFold31 ==
    Seeded =>
        /\ generators["a"].seed = Fold31(requests.vehicle_id, Len(requests.vehicle_id))
        /\ In32Bits(generators["a"].seed)
        /\ requests.vehicle_id = <<>> => generators["a"].seed = State32(0, 0)
        /\ generators["a"].state = generators["a"].seed

\* hash_string('fffffff') = 3348574758 = 51095 * 2^16 + 12838: the fold
\* has wrapped past 2^32 and the result lies above 2^31
C20_Witness ==
    /\ Seeded
    /\ requests.vehicle_id = <<"f", "f", "f", "f", "f", "f", "f">>
    /\ generators["a"].seed = State32(51095, 12838)

\* _fallback_classification has returned
FallbackDone == phase = "helper" /\ lastResult.kind = "return"

\* the keyword sets of the modern fallback, in the order of the code
KeywordClasses == <<"Pickup", "Van", "Sports Car", "Wagon">>
KeywordSets ==
    << {W_truck, W_pickup, W_150, W_250, W_350},
       {W_van, W_caravan, W_voyager},
       {W_sport, W_gt, W_gto, W_ss, W_rt},
       {W_wagon, W_estate} >>

\* set k has a keyword contained in the lowercased model
KeywordSetHits(k, model) ==
    \E word \in KeywordSets[k] : ContainsIgnoreCase(word, model)

\* C21: for year >= 1930 (1930 included) the fallback tier returns the
\* class of the first keyword set, in the order Pickup, Van, Sports Car,
\* Wagon, with a keyword contained in the lowercased model, and Sedan when
\* none has; it never returns Roadster or Touring Car for year >= 1930,
\* never a keyword class or Sedan for year < 1930, and the result is a
\* function of model and year alone.
C21_ModernFallback ==
    FallbackDone =>
        LET model == lastCall.model
            hits == {k \in 1..4 : KeywordSetHits(k, model)}
            class == lastResult.value
        IN  /\ lastCall.year >= 1930 =>
                  /\ class \notin {"Roadster", "Touring Car"}
                  /\ hits = {} => class = "Sedan"
                  /\ hits # {} =>
                        class = KeywordClasses[CHOOSE k \in hits : \A j \in hits : k <= j]
            /\ lastCall.year < 1930 =>
                  class \notin {"Pickup", "Van", "Sports Car", "Wagon", "Sedan"}
            /\ \A manufacturer \in Manufacturers :
                  class = FallbackClassification(manufacturer, model, lastCall.year)

\* 'Sport Wagon' in 1930 carries keywords of two sets and gets the earlier
\* class
C21_Witness ==
    /\ FallbackDone
    /\ lastCall.year = 1930
    /\ lastCall.model = dSportWagon
    /\ lastResult.value = "Sports Car"

\* C22: where no override applies, classify answers by the exact-match
\* tier exactly when the stripped model equals, ignoring case, a string
\* registered under some body class's exact_matches; the classes are
\* scanned in catalog order and the first class holding such a string is
\* returned, so a model registered under two classes gets the earlier one.
C22_ExactTierFirstClass ==
    (Called /\ ~OverrideRule(ArgM, ArgD, ArgY)) =>
        /\ ExactRule(ArgD) <=> lastResult.value[2] = "exact_match"
        /\ ExactRule(ArgD) => lastResult.value[1] = ExactClass(ArgD)

\* the model is registered under two body classes and the earlier one of
\* the catalog is returned
C22_Witness ==
    /\ Called
    /\ lastResult.value[2] = "exact_match"
    /\ \E i, j \in 1..Len(PatternItems) :
          /\ i < j
          /\ ExactRuleIn(PatternItems[i], ArgD)
          /\ ExactRuleIn(PatternItems[j], ArgD)
          /\ lastResult.value[1] = PatternItems[i][1]
          /\ lastResult.value[1] # PatternItems[j][1]

\* what a classifier built from the same catalogs that has made no call
\* returns for the latest call's arguments
FreshResult ==
    Classify(patterns, overrides, compiled_patterns, InitStats,
             lastCall.manufacturer, lastCall.model, lastCall.year).ret

\* C23: the result of classify(m, d, y) does not depend on the call
\* history: whatever calls came before (whatever the counters hold), the
\* same arguments return what a classifier fresh from the same catalogs
\* returns; the catalogs stay as construction left them.
C23_HistoryIndependent ==
    (phase = "ready" /\ lastResult.kind # "none") =>
        /\ lastResult = FreshResult
        /\ LET self == Construct(files)
           IN  /\ patterns = self.patterns
               /\ overrides = self.overrides
               /\ compiled_patterns = self.compiled_patterns

\* the second call is answered by a rule although the first call fell back
C23_Witness ==
    /\ Called
    /\ stats.total = 2
    /\ stats.fallback = 1
    /\ lastResult.value[2] \in {"historical_override", "exact_match",
                                 "regex_match", "manufacturer_default"}

\* threads that have entered classify, are inside it, have returned from it
Started == {w \in Workers : workers[w].pc # "idle"}
Inside == {w \in Workers : workers[w].pc \notin {"idle", "done"}}
Completed == {w \in Workers : workers[w].pc = "done"}

\* no call began while another call was under way
Serialized == \A w \in Started : ~workers[w].overlapped

\* C24: serialization of counter access is necessary when one classifier
\* is shared by several threads: when the calls are serialized
\* stats['total'] (and the tier counters, and the class counters) equal the
\* number of completed calls once no call is under way, and total never
\* exceeds the number of calls begun; when two calls interleave between the
\* read and the write of an increment an update can be lost (C24_Witness).
C24_SerializedCountsEveryCall ==
    phase = "shared" =>
        /\ stats.total <= Cardinality(Started)
        /\ (Serialized /\ Inside = {}) =>
              /\ stats.total = Cardinality(Completed)
              /\ stats.historical_override + stats.exact_match + stats.regex_match
                    + stats.manufacturer_default + stats.fallback
                  = Cardinality(Completed)
              /\ \A c \in DOMAIN stats.by_body_class :
                    stats.by_body_class[c] =
                        Cardinality({w \in Completed : workers[w].result[1] = c})

\* both calls have returned, they interleaved, and total is less than the
\* number of completed calls: an update was lost
C24_Witness ==
    /\ phase = "shared"
    /\ Completed = Workers
    /\ ~Serialized
    /\ stats.total < Cardinality(Completed)

\* the latest call of generator g was generate_instance
InstanceCalled(g) ==
    /\ requests[g].calls >= 1
    /\ requests[g].method = "generate_instance"

\* int(draw * n) is an index of a table of n entries
IndexWithin(st, n) == ScaledInt(st, n) \in 0..(n - 1)

\* C25: generate_instance has no failure mode: for any integer seed, any
\* vehicle year and any index >= 0, every table index computed from a draw
\* (plant letter, condition tier and value base, color, option) is within
\* its table, and the weighted state choice returns one of the eight state
\* codes from inside its loop.
C25_NoFailureMode ==
    \A g \in Instances :
        InstanceCalled(g) =>
            LET st == requests[g].before
                r == produced[g]
                v == IF r.year <= 1980 THEN 1 ELSE 0
                count == ScaledInt(Draw(st, v + 6), r.condition_rating * 3)
                n == IF count < 8 THEN count ELSE 8
            IN  /\ \A k \in 1..(v + 12 + n) : In32Bits(Draw(st, k))
                /\ v = 1 => IndexWithin(Draw(st, 1), 5)
                /\ v = 1 => r.vin[2] \in {"R", "F", "T", "D", "A"}
                /\ r.condition_rating \in 1..5
                /\ r.condition_rating \in DOMAIN BaseValueThousands
                /\ IndexWithin(Draw(st, v + 4), 49)
                /\ GenerateState(Draw(st, v + 3)).inLoop
                /\ r.registered_state = GenerateState(Draw(st, v + 3)).code
                /\ r.registered_state
                      \in {"CA", "TX", "FL", "AZ", "OH", "MI", "NY", "PA"}
                /\ IndexWithin(Draw(st, v + 5), 6)
                /\ r.exterior_color
                      \in {Pre1970Colors[i] : i \in 1..6} \cup {Post1970Colors[i] : i \in 1..6}
                /\ \A k \in (v + 7)..(v + 6 + n) : IndexWithin(Draw(st, k), 8)
                /\ \A i \in 1..Len(r.factory_options) :
                      r.factory_options[i] \in {AllOptions[j] : j \in 1..8}
                /\ generators[g].state = Draw(st, v + 12 + n)

\* a generator seeded outside 0..2^32-1 has produced an instance of a
\* future model year whose state was found past the first of the loop
C25_Witness ==
    \E g \in Instances :
        /\ InstanceCalled(g)
        /\ ~In32Bits(generators[g].seed)
        /\ produced[g].year = 2030
        /\ produced[g].registered_state # "CA"

\* the arguments classify is to get for a document: the fields of _source,
\* 'Unknown', 'Unknown' and 2000 where a field is absent
ExpectedArgs(doc) ==
    LET source == doc._source
        Field(k, default) ==
            IF \E n \in 1..Len(source.items) : source.items[n][1] = k
            THEN source.items[CHOOSE n \in 1..Len(source.items) : source.items[n][1] = k][2]
            ELSE default
    IN  [manufacturer |-> Field("manufacturer", <<"U","n","k","n","o","w","n">>),
         model |-> Field("model", <<"U","n","k","n","o","w","n">>),
         year |-> Field("year", 2000)]

\* C26: classify_and_prepare_updates invokes classify exactly once per
\* document, in document order, and emits exactly one update action per
\* document, carrying that document's _id with the body_class and match_type
\* returned for it; with a fresh classifier stats['total'] afterwards equals
\* the number of documents.
C26_OneCallOneActionPerDocument ==
    job.pc \in {"loop", "returned"} =>
        /\ Len(job.calls) = job.i
        /\ Len(job.update_actions) = job.i
        /\ stats.total = job.i
        /\ job.pc = "returned" => job.i = Len(job.documents)
        /\ \A k \in 1..job.i :
              LET doc == job.documents[k]
                  args == ExpectedArgs(doc)
                  returned == Classify(patterns, overrides, compiled_patterns,
                                       InitStats, args.manufacturer, args.model,
                                       args.year).ret.value
              IN  /\ job.calls[k] = args
                  /\ job.update_actions[k]._id = doc._id
                  /\ job.update_actions[k].doc.body_class = returned[1]
                  /\ job.update_actions[k].doc.body_class_match_type = returned[2]

\* the function has returned for two documents, one of them without any
\* field, that were classified by different tiers
C26_Witness ==
    /\ job.pc = "returned"
    /\ Len(job.documents) = 2
    /\ \E k \in 1..2 : job.documents[k]._source = EmptyDict
    /\ job.update_actions[1].doc.body_class_match_type
         # job.update_actions[2].doc.body_class_match_type
    /\ stats.total = 2

\* the 16 manufacturers generate_vin knows, each with its WMI
ListedWmi ==
    { <<<<"F","o","r","d">>, <<"1","F","A">>>>,
      <<<<"L","i","n","c","o","l","n">>, <<"1","L","N">>>>,
      <<<<"M","e","r","c","u","r","y">>, <<"1","M","E">>>>,
      <<<<"C","h","e","v","r","o","l","e","t">>, <<"1","G","C">>>>,
      <<<<"B","u","i","c","k">>, <<"1","G","4">>>>,
      <<<<"C","a","d","i","l","l","a","c">>, <<"1","G","Y">>>>,
      <<<<"P","o","n","t","i","a","c">>, <<"1","G","2">>>>,
      <<<<"O","l","d","s","m","o","b","i","l","e">>, <<"1","G","3">>>>,
      <<<<"G","M","C">>, <<"1","G","T">>>>,
      <<<<"D","o","d","g","e">>, <<"1","B","3">>>>,
      <<<<"C","h","r","y","s","l","e","r">>, <<"1","C","3">>>>,
      <<<<"P","l","y","m","o","u","t","h">>, <<"1","P","3">>>>,
      <<<<"J","e","e","p">>, <<"1","J","4">>>>,
      <<<<"R","a","m">>, <<"1","D","7">>>>,
      <<<<"T","e","s","l","a">>, <<"5","Y","J">>>>,
      <<<<"R","i","v","i","a","n">>, <<"7","J","R">>>> }

\* C27: in the unseeded generate_vin the model-year code is the 10th and the
\* plant code the 11th character of the VIN; the year code is the table
\* entry (the 30-symbol cycle counted from 1950) for years 1950..2025 and
\* 'X' for every other year; the first three characters are the
\* manufacturer's WMI, '1XX' for an unlisted manufacturer.
C27_YearCodeTenthPlantEleventh ==
    requests.calls > 0 =>
        /\ produced.vin[10] =
              IF requests.year >= 1950 /\ requests.year <= 2025
              THEN YearCodes[((requests.year - 1950) % Len(YearCodes)) + 1]
              ELSE "X"
        /\ produced.vin[11] = produced.plant
        /\ \/ <<requests.manufacturer, SubSeq(produced.vin, 1, 3)>> \in ListedWmi
           \/ /\ \A p \in ListedWmi : p[1] # requests.manufacturer
              /\ SubSeq(produced.vin, 1, 3) = <<"1","X","X">>

\* C28: all VINs of one generate_all_vins batch are pairwise distinct, so no
\* record overwrites another when the records are stored keyed by VIN.
C28_BatchVinsDistinct ==
    /\ \A m, n \in 1..Len(produced) : m # n => produced[m].vin # produced[n].vin
    /\ requests.pc = "loaded" => Len(requests.stored) = Len(produced)

\* the state of a generator seeded from the vehicle's own id after it has
\* produced the instances 0 .. i-1 of that vehicle
RECURSIVE OwnState(_, _)
OwnState(vehicle, i) ==
    IF i = 0 THEN HashString(vehicle.vehicle_id)
    ELSE GenerateInstance(OwnState(vehicle, i - 1), vehicle, i - 1, 0).state

\* the record of instance i of a vehicle, from the vehicle and the day alone
OwnRecord(vehicle, i, day) == GenerateInstance(OwnState(vehicle, i), vehicle, i, day).record

\* sum of vin_count over the first j entries of a distribution
RECURSIVE Allocated(_, _)
Allocated(d, j) == IF j = 0 THEN 0 ELSE Allocated(d, j - 1) + d[j].vin_count

\* C29: the records generate_all_vins produces for a vehicle depend only on
\* that vehicle's data and allocation (and the day of the call): they are
\* the instances 0..vin_count-1 of a generator seeded from
\* hash_string(vehicle_id), whatever other entries the batch has and in
\* whatever order; the batch emits exactly sum(vin_count) records.
C29_OwnGeneratorPerVehicle ==
    LET d == requests.distribution
        inner == IF requests.pc = "instances" THEN requests.i ELSE 0
        made(j) == IF j <= requests.idx THEN d[j].vin_count
                   ELSE IF j = requests.idx + 1 THEN inner ELSE 0
    IN  /\ Len(produced) = Allocated(d, requests.idx) + inner
        /\ requests.pc \in {"returned", "loaded"} => Len(produced) = Allocated(d, Len(d))
        /\ \A j \in 1..Len(d) :
              \A i \in 0..(made(j) - 1) :
                 LET k == Allocated(d, j - 1) + i + 1
                 IN  produced[k] = OwnRecord(d[j].vehicle, i, requests.days[k])

\* a batch of two vehicles with several records each has returned, the day
\* having changed while it ran
C29_Witness ==
    /\ requests.pc = "returned"
    /\ Len(requests.distribution) = 2
    /\ \A j \in 1..2 : requests.distribution[j].vin_count = 2
    /\ Len(produced) = 4
    /\ requests.days[1] # requests.days[4]
    /\ produced[1].vehicle_id # produced[3].vehicle_id

\* max(5, floor(target * weight / total_weight)) for vehicle k of the call
FloorAllocation(k) ==
    LET exact == (distTarget * distVehicles[k].instance_count)
                    \div SumInstanceCount(distVehicles, Len(distVehicles))
    IN  IF exact > 5 THEN exact ELSE 5

\* what vehicle k has in the returned distribution d beyond its initial
\* allocation in the distribution `initial` of the first loop
Added(initial, d, k) ==
    LET p == CHOOSE p \in 1..Len(d) : d[p].vehicle = distVehicles[k]
    IN  d[p].vin_count - initial[k].vin_count

\* every input vehicle appears exactly once in the distribution d
EachVehicleOnce(d) ==
    /\ Len(d) = Len(distVehicles)
    /\ \A k \in 1..Len(distVehicles) :
          Cardinality({p \in 1..Len(d) : d[p].vehicle = distVehicles[k]}) = 1

\* the correction added 1 to `deficit` vehicles, none of them of a smaller
\* instance_count than a vehicle that got nothing, and 0 to the others
OneEachToTheLargest(added, deficit) ==
    LET n == Len(distVehicles)
    IN  /\ \A k \in 1..n : added[k] \in {0, 1}
        /\ Cardinality({k \in 1..n : added[k] = 1}) = deficit
        /\ \A k, m \in 1..n :
              added[k] = 1 /\ added[m] = 0 =>
                  distVehicles[k].instance_count >= distVehicles[m].instance_count

\* the first loop's distribution for the arguments of the call
InitialDistribution == ProportionalDistribution(distVehicles, distTarget)

\* C30 as stated: the initial allocations are
\* max(5, floor(target * weight / total_weight)); when they sum to less than
\* target, the deficit is smaller than the number of vehicles, and the
\* correction adds exactly 1 to each of the `deficit` vehicles of the
\* largest instance_count and 0 to every other; every input vehicle appears
\* exactly once in the returned distribution.
C30_DeficitBelowVehicleCount ==
    distResult.kind = "return" =>
        LET n == Len(distVehicles)
            initial == InitialDistribution
            deficit == distTarget - SumVinCount(initial, n)
            added == [k \in 1..n |-> Added(initial, distResult.value, k)]
        IN  /\ \A k \in 1..n : initial[k].vin_count = FloorAllocation(k)
            /\ deficit > 0 => deficit < n /\ OneEachToTheLargest(added, deficit)
            /\ EachVehicleOnce(distResult.value)

\* C30 amended: the initial allocations are computed in doubles and are
\* max(5, floor(target * weight / total_weight)) or 1 less; when they sum to
\* less than target, the deficit is at most the number of vehicles, and the
\* correction adds exactly 1 to each of the `deficit` vehicles of the
\* largest instance_count and 0 to every other; every input vehicle appears
\* exactly once in the returned distribution.
C30_DeficitAtMostVehicleCount ==
    distResult.kind = "return" =>
        LET n == Len(distVehicles)
            initial == InitialDistribution
            deficit == distTarget - SumVinCount(initial, n)
            added == [k \in 1..n |-> Added(initial, distResult.value, k)]
        IN  /\ \A k \in 1..n :
                  initial[k].vin_count \in {FloorAllocation(k), FloorAllocation(k) - 1}
            /\ deficit > 0 => deficit <= n /\ OneEachToTheLargest(added, deficit)
            /\ EachVehicleOnce(distResult.value)

\* the call returned after a correction in which every vehicle got 1: the
\* doubles put 5, 95 and 191 where the quotients are 6, 96 and 192
C30_Witness ==
    /\ distResult.kind = "return"
    /\ Len(distVehicles) = 3
    /\ distTarget = 294
    /\ LET initial == InitialDistribution
       IN  /\ distTarget - SumVinCount(initial, 3) = 3
           /\ \A k \in 1..3 : Added(initial, distResult.value, k) = 1
           /\ \E k \in 1..3 : initial[k].vin_count = 191

====
